---------------------------- MODULE Spec2Model ----------------------------
(***************************************************************************)
(* EthioMorph: the character-order table, the homophone normalizer, the    *)
(* verb-home detector, the root extractor (stemmer) and the word generator *)
(* (conjugator).                                                           *)
(*                                                                         *)
(* A character is its Unicode code point, a word a sequence of code        *)
(* points.  Comments give the glyphs.                                      *)
(***************************************************************************)
EXTENDS Integers, Sequences, FiniteSets, TLC

VARIABLES
    q,          \* the character-table / normalizer call in flight and its result
    lexicon,    \* the lexicon data GeezStemmer.__init__ loaded
    st          \* the extract_root call in flight (see StemInit)

vars == <<q, lexicon, st>>

---------------------------------------------------------------------------
(* Bounds of the model *)

MaxTextLen == 2      \* longest text handed to normalize_geez
MaxWordLen == 3      \* longest word drawn exhaustively from WordAlphabet
MaxHomeLen == 4      \* longest stem handed to detect_verb_home
MaxCalls == 3        \* most calls made on one stemmer and one generator

---------------------------------------------------------------------------
(* src/src/decomposer.py: the character table *)

\* The rows in the order the module adds them: <<base, the 7 characters>>.
Rows ==
  << <<4608, <<4608, 4609, 4610, 4611, 4612, 4613, 4614>> >>,  \* 23: ሀ ሀሁሂሃሄህሆ
     <<4616, <<4616, 4617, 4618, 4619, 4620, 4621, 4622>> >>,  \* 24: ለ ለሉሊላሌልሎ
     <<4624, <<4624, 4625, 4626, 4627, 4628, 4629, 4630>> >>,  \* 25: ሐ ሐሑሒሓሔሕሖ
     <<4632, <<4632, 4633, 4634, 4635, 4636, 4637, 4638>> >>,  \* 26: መ መሙሚማሜምሞ
     <<4640, <<4640, 4641, 4642, 4643, 4644, 4645, 4646>> >>,  \* 27: ሠ ሠሡሢሣሤሥሦ
     <<4648, <<4648, 4649, 4650, 4651, 4652, 4653, 4654>> >>,  \* 28: ረ ረሩሪራሬርሮ
     <<4656, <<4656, 4657, 4658, 4659, 4660, 4661, 4662>> >>,  \* 29: ሰ ሰሱሲሳሴስሶ
     <<4664, <<4664, 4665, 4666, 4667, 4668, 4669, 4670>> >>,  \* 30: ሸ ሸሹሺሻሼሽሾ
     <<4672, <<4672, 4673, 4674, 4675, 4676, 4677, 4678>> >>,  \* 31: ቀ ቀቁቂቃቄቅቆ
     <<4704, <<4704, 4705, 4706, 4707, 4708, 4709, 4710>> >>,  \* 32: በ በቡቢባቤብቦ
     <<4712, <<4712, 4713, 4714, 4715, 4716, 4717, 4718>> >>,  \* 33: ቨ ቨቩቪቫቬቭቮ
     <<4720, <<4720, 4721, 4722, 4723, 4724, 4725, 4726>> >>,  \* 34: ተ ተቱቲታቴትቶ
     <<4728, <<4728, 4729, 4730, 4731, 4732, 4733, 4734>> >>,  \* 35: ቸ ቸቹቺቻቼችቾ
     <<4736, <<4736, 4737, 4738, 4739, 4740, 4741, 4742>> >>,  \* 36: ኀ ኀኁኂኃኄኅኆ
     <<4752, <<4752, 4753, 4754, 4755, 4756, 4757, 4758>> >>,  \* 37: ነ ነኑኒናኔንኖ
     <<4760, <<4760, 4761, 4762, 4763, 4764, 4765, 4766>> >>,  \* 38: ኘ ኘኙኚኛኜኝኞ
     <<4768, <<4768, 4769, 4770, 4771, 4772, 4773, 4774>> >>,  \* 39: አ አኡኢኣኤእኦ
     <<4776, <<4776, 4777, 4778, 4779, 4780, 4781, 4782>> >>,  \* 40: ከ ከኩኪካኬክኮ
     <<4792, <<4792, 4793, 4794, 4795, 4796, 4797, 4798>> >>,  \* 41: ኸ ኸኹኺኻኼኽኾ
     <<4808, <<4808, 4809, 4810, 4811, 4812, 4813, 4814>> >>,  \* 42: ወ ወዉዊዋዌውዎ
     <<4819, <<4819, 4817, 4818, 4819, 4820, 4821, 4822>> >>,  \* 43: ዓ ዓዑዒዓዔዕዖ
     <<4824, <<4824, 4825, 4826, 4827, 4828, 4829, 4830>> >>,  \* 44: ዘ ዘዙዚዛዜዝዞ
     <<4832, <<4832, 4833, 4834, 4835, 4836, 4837, 4838>> >>,  \* 45: ዠ ዠዡዢዣዤዥዦ
     <<4840, <<4840, 4841, 4842, 4843, 4844, 4845, 4846>> >>,  \* 46: የ የዩዪያዬይዮ
     <<4848, <<4848, 4849, 4850, 4851, 4852, 4853, 4854>> >>,  \* 47: ደ ደዱዲዳዴድዶ
     <<4864, <<4864, 4865, 4866, 4867, 4868, 4869, 4870>> >>,  \* 48: ጀ ጀጁጂጃጄጅጆ
     <<4872, <<4872, 4873, 4874, 4875, 4876, 4877, 4878>> >>,  \* 49: ገ ገጉጊጋጌግጎ
     <<4896, <<4896, 4897, 4898, 4899, 4900, 4901, 4902>> >>,  \* 50: ጠ ጠጡጢጣጤጥጦ
     <<4904, <<4904, 4905, 4906, 4907, 4908, 4909, 4910>> >>,  \* 51: ጨ ጨጩጪጫጬጭጮ
     <<4912, <<4912, 4913, 4914, 4915, 4916, 4917, 4918>> >>,  \* 52: ጰ ጰጱጲጳጴጵጶ
     <<4920, <<4920, 4921, 4922, 4923, 4924, 4925, 4926>> >>,  \* 53: ጸ ጸጹጺጻጼጽጾ
     <<4928, <<4928, 4929, 4922, 4931, 4932, 4933, 4934>> >>,  \* 54: ፀ ፀፁጺፃፄፅፆ
     <<4936, <<4936, 4937, 4938, 4939, 4940, 4941, 4942>> >>,  \* 55: ፈ ፈፉፊፋፌፍፎ
     <<4944, <<4944, 4945, 4946, 4947, 4948, 4949, 4950>> >> >> \* 56: ፐ ፐፑፒፓፔፕፖ

\* _add_row(base, chars) writes, for each index i of the row (0-based in the
\* source), DEVOWELIZATION_MAP[char] = base, ORDER_MAP[char] = i + 1 and
\* REVOWELIZATION_MAP[(base, i + 1)] = char.  The rows are added in source
\* order and a later write to a key replaces an earlier one, so after the
\* last call a key holds what the last write to it stored.
RowsHolding(char) == {n \in 1..Len(Rows) : \E i \in 1..7 : Rows[n][2][i] = char}
RowsOfBase(base) == {n \in 1..Len(Rows) : Rows[n][1] = base}
Last(S) == CHOOSE n \in S : \A m \in S : m <= n

\* The order _add_row stores for the character at 1-based position i.
OrderWritten(i) == i

\* A row that stores the 0-based loop index as the order.
add_row_ord_zero_based(char) ==
    LET n == Last(RowsHolding(char))
    IN  Last({i \in 1..7 : Rows[n][2][i] = char}) - 1

add_row_dev(char) == Rows[Last(RowsHolding(char))][1]
add_row_ord(char) ==
    LET n == Last(RowsHolding(char))
    IN  OrderWritten(Last({i \in 1..7 : Rows[n][2][i] = char}))
add_row_rev(base, order) ==
    Rows[Last(RowsOfBase(base))][2][Last({i \in 1..7 : OrderWritten(i) = order})]

\* The bases handed to _add_row and the members of the table.
Bases == {Rows[n][1] : n \in 1..Len(Rows)}
TableChars == {Rows[n][2][i] : n \in 1..Len(Rows), i \in 1..7}

DEVOWELIZATION_MAP == [char \in TableChars |-> add_row_dev(char)]
ORDER_MAP == [char \in TableChars |-> add_row_ord(char)]
REVOWELIZATION_MAP ==
    [k \in Bases \X {OrderWritten(i) : i \in 1..7} |-> add_row_rev(k[1], k[2])]

\* dict.get(key, default)
Get(m, k, default) == IF k \in DOMAIN m THEN m[k] ELSE default

devowelize(char) == Get(DEVOWELIZATION_MAP, char, char)

get_char_order(char) == Get(ORDER_MAP, char, 0)

get_char_by_order(base, order) == Get(REVOWELIZATION_MAP, <<base, order>>, base)

get_consonant_skeleton(word) == [i \in 1..Len(word) |-> devowelize(word[i])]


---------------------------------------------------------------------------
(* src/src/normalizer.py *)

\* The dict literal, one <<key, value>> per entry in source order; a key is
\* the string written in the source (one of them holds two characters).
NORMALIZATION_MAP ==
  << <<(<<4624>>), 4608>>, <<(<<4625>>), 4609>>, <<(<<4626>>), 4610>>,   \* 10: ሐ:ሀ ሑ:ሁ ሒ:ሂ
     <<(<<4627>>), 4611>>, <<(<<4628>>), 4612>>, <<(<<4629>>), 4613>>,   \*     ሓ:ሃ ሔ:ሄ ሕ:ህ
     <<(<<4630>>), 4614>>,                                               \*     ሖ:ሆ
     <<(<<4736>>), 4608>>, <<(<<4737>>), 4609>>, <<(<<4738>>), 4610>>,   \* 11: ኀ:ሀ ኁ:ሁ ኂ:ሂ
     <<(<<4739>>), 4611>>, <<(<<4740>>), 4612>>, <<(<<4741>>), 4613>>,   \*     ኃ:ሃ ኄ:ሄ ኅ:ህ
     <<(<<4742>>), 4614>>,                                               \*     ኆ:ሆ
     <<(<<4640>>), 4656>>, <<(<<4641>>), 4657>>, <<(<<4642>>), 4658>>,   \* 12: ሠ:ሰ ሡ:ሱ ሢ:ሲ
     <<(<<4643>>), 4659>>, <<(<<4644>>), 4660>>, <<(<<4645>>), 4661>>,   \*     ሣ:ሳ ሤ:ሴ ሥ:ስ
     <<(<<4646>>), 4662>>,                                               \*     ሦ:ሶ
     <<(<<4928>>), 4920>>, <<(<<4929>>), 4921>>, <<(<<4922>>), 4922>>,   \* 13: ፀ:ጸ ፁ:ጹ ጺ:ጺ
     <<(<<4931>>), 4923>>, <<(<<4932>>), 4924>>, <<(<<4933>>), 4925>>,   \*     ፃ:ጻ ፄ:ጼ ፅ:ጽ
     <<(<<4934>>), 4926>>,                                               \*     ፆ:ጾ
     <<(<<4819>>), 4768>>, <<(<<4817>>), 4769>>, <<(<<4818>>), 4770>>,   \* 14: ዓ:አ ዑ:ኡ ዒ:ኢ
     <<(<<32, 4819>>), 4768>>, <<(<<4820>>), 4772>>,                     \*     ' ዓ':አ ዔ:ኤ
     <<(<<4821>>), 4773>>, <<(<<4822>>), 4774>> >>                       \*     ዕ:እ ዖ:ኦ

\* NORMALIZATION_MAP.get(char, char) for one character of the text: the
\* entry whose key is the one-character string char (the last such entry,
\* as in a dict literal), else char itself.
MapGet(map, char) ==
    LET hits == {n \in 1..Len(map) : map[n][1] = <<char>>}
    IN  IF hits = {} THEN char ELSE map[Last(hits)][2]

\* A map with an entry whose value is itself a key: ሐ:ኀ instead of ሐ:ሀ.
NormalizeCharChained(char) ==
    MapGet(Append(NORMALIZATION_MAP, <<(<<4624>>), 4736>>), char)

NormalizeChar(char) == MapGet(NORMALIZATION_MAP, char)

normalize_geez(text) == [i \in 1..Len(text) |-> NormalizeChar(text[i])]

---------------------------------------------------------------------------
(* The lexicon file (data/lexicon.json): {"roots": [{"root", "type"}],       *)
(* "nouns": [{"word", "root"}]}.  The meanings are left out.                 *)

\* What __init__ is left with when the file is not found (stemmer.py 54-55).
EmptyLexicon == [roots |-> << >>, nouns |-> << >>]

\* A lexicon file: ቀተለ, ነገረ (type_a), ቀደሰ (type_b), ወለደ (weak_initial),
\* ቀወመ (hollow_w), መነገነ (quadriliteral), መሀረ (laryngeal_middle); the nouns
\* መዝሙር (root ዘመረ) and ጸሀይ (no root).
ModelLexicon ==
    [roots |-> << [root |-> <<4672, 4720, 4616>>, type |-> "type_a"],
                  [root |-> <<4752, 4872, 4648>>, type |-> "type_a"],
                  [root |-> <<4672, 4848, 4656>>, type |-> "type_b"],
                  [root |-> <<4808, 4616, 4848>>, type |-> "weak_initial"],
                  [root |-> <<4672, 4808, 4632>>, type |-> "hollow_w"],
                  [root |-> <<4632, 4752, 4872, 4752>>, type |-> "quadriliteral"],
                  [root |-> <<4632, 4608, 4648>>, type |-> "laryngeal_middle"] >>,
     nouns |-> << [word |-> <<4632, 4829, 4633, 4653>>, root |-> <<4824, 4632, 4648>>],
                  [word |-> <<4920, 4608, 4845>>] >>]

---------------------------------------------------------------------------
(* src/src/stemmer.py: GeezStemmer.__init__ *)

\* self.lexicon_roots: root -> entry (the last entry of a root).
lexicon_roots == {lexicon.roots[n].root : n \in 1..Len(lexicon.roots)}
LexiconType(root) ==
    lexicon.roots[Last({n \in 1..Len(lexicon.roots) : lexicon.roots[n].root = root})].type

RootsOfType(t) ==
    {lexicon.roots[n].root : n \in {m \in 1..Len(lexicon.roots) : lexicon.roots[m].type = t}}
weak_initial_roots == RootsOfType("weak_initial")
quadriliterals == RootsOfType("quadriliteral")

\* self.nouns: word -> entry (the last entry of a word).
nouns == {lexicon.nouns[n].word : n \in 1..Len(lexicon.nouns)}
NounEntry(word) ==
    lexicon.nouns[Last({n \in 1..Len(lexicon.nouns) : lexicon.nouns[n].word = word})]

prefixes ==
  << <<4843, 4661, 4720>>, <<4723, 4661, 4720>>, <<4755, 4661, 4720>>,
     <<4619, 4661, 4720>>,                                    \* 69: ያስተ ታስተ ናስተ ላስተ
     <<4632, 4661, 4720>>, <<4768, 4661, 4720>>,              \* 71: መስተ አስተ
     <<4773, 4757, 4824>>, <<4773, 4616>>,                    \* 73: እንዘ እለ
     <<4843, 4661>>, <<4723, 4661>>, <<4755, 4661>>, <<4619, 4661>>,  \* 75: ያስ ታስ ናስ ላስ
     <<4843, 4757>>, <<4723, 4757>>, <<4755, 4757>>,          \* 77: ያን ታን ናን
     <<4843>>, <<4723>>, <<4755>>,                            \* 78: ያ ታ ና
     <<4845, 4725>>, <<4725, 4725>>, <<4773, 4725>>, <<4757, 4725>>,  \* 80: ይት ትት እት ንት
     <<4808>>, <<4704>>, <<4616>>, <<4776>>, <<4840>>,        \* 82: ወ በ ለ ከ የ
     <<4845>>, <<4725>>, <<4773>>, <<4757>>, <<4621>>,        \* 83: ይ ት እ ን ል
     <<4768, 4757>>, <<4768, 4661>>, <<4768>>, <<4720>>,
     <<4632>>, <<4637>>, <<4659>> >>                          \* 85: አን አስ አ ተ መ ም ሳ

causative_prefixes ==
    { <<4843>>, <<4723>>, <<4755>>, <<4768>>,                 \* 108: ያ ታ ና አ
      <<4843, 4661, 4720>>, <<4723, 4661, 4720>>,
      <<4755, 4661, 4720>>, <<4768, 4661, 4720>> }            \*      ያስተ ታስተ ናስተ አስተ

\* The keys of self.laryngeal_middle_roots.
laryngeal_middle_roots ==
    { <<4709, 4613, 4616>>,    \* 115: ብህለ
      <<4752, 4768, 4776>>,    \* 116: ነአከ
      <<4632, 4624, 4648>>,    \* 117: መሐረ
      <<4656, 4624, 4616>>,    \* 118: ሰሐለ
      <<4616, 4624, 4840>>,    \* 119: ለሐየ
      <<4936, 4624, 4632>>,    \* 120: ፈሐመ
      <<4648, 4624, 4704>>,    \* 121: ረሐበ
      <<4848, 4624, 4840>>,    \* 122: ደሐየ
      <<4872, 4624, 4848>> }   \* 123: ገሐደ

suffixes ==
  << <<4781, 4633>>, <<4781, 4757>>, <<4774, 4633>>, <<4774, 4757>>,
     <<4814, 4633>>, <<4814, 4757>>,                          \* 128: ክሙ ክን ኦሙ ኦን ዎሙ ዎን
     <<4633>>, <<4635>>, <<4814>>, <<4846>>, <<4769>>, <<4771>>,   \* 130: ሙ ማ ዎ ዮ ኡ ኣ
     <<4752>>, <<4754>>, <<4755>>, <<4777>>, <<4776>>, <<4778>>,   \* 131: ነ ኒ ና ኩ ከ ኪ
     <<4781>>, <<4757>>, <<4725>>, <<4637>>, <<4768, 4725>>,
     <<4720>>, <<4841>> >>                                    \* 132: ክ ን ት ም አት ተ ዩ

---------------------------------------------------------------------------
(* Python string operations *)

StartsWith(w, p) == Len(p) <= Len(w) /\ SubSeq(w, 1, Len(p)) = p
EndsWith(w, s) == Len(s) <= Len(w) /\ SubSeq(w, Len(w) - Len(s) + 1, Len(w)) = s
\* w[len(p):] and w[:-len(s)]
\* A slice that takes off the first character only.
DropFirstOne(w, n) == SubSeq(w, 2, Len(w))
DropFirst(w, n) == SubSeq(w, n + 1, Len(w))
\* A slice that removes nothing.
DropLastNothing(w, n) == w
DropLast(w, n) == SubSeq(w, 1, Len(w) - n)
First(S) == CHOOSE n \in S : \A m \in S : n <= m

---------------------------------------------------------------------------
(* GeezStemmer._is_weak_root_candidate, _reconstruct_laryngeal_middle *)

is_weak_root_candidate(stem) ==
    IF Len(stem) < 1 THEN FALSE
    ELSE IF get_char_order(stem[1]) \in {7, 3, 5} THEN TRUE
    ELSE LET skeleton == get_consonant_skeleton(stem)
         IN  Len(skeleton) = 2 /\ (<<4808>> \o skeleton) \in weak_initial_roots   \* ወ + skeleton

laryngeal_bases == <<4608, 4624, 4736, 4768, 4816>>      \* 184: ሀ ሐ ኀ አ ዐ

NoRoot == [found |-> FALSE, root |-> << >>, laryngeal |-> 0]

\* Returns (root, laryngeal), or (None, None): found = FALSE.
reconstruct_laryngeal_middle(skeleton) ==
    IF Len(skeleton) # 2 THEN NoRoot
    ELSE LET c1 == devowelize(skeleton[1])
             c3 == devowelize(skeleton[2])
             candidate(n) == <<c1, laryngeal_bases[n], c3>>
             hits == {n \in 1..Len(laryngeal_bases) :
                         \/ candidate(n) \in laryngeal_middle_roots
                         \/ /\ candidate(n) \in lexicon_roots
                            /\ LexiconType(candidate(n)) \in {"laryngeal_middle", "laryngeal"}}
         IN  IF hits # {}
             THEN [found |-> TRUE, root |-> candidate(First(hits)),
                   laryngeal |-> laryngeal_bases[First(hits)]]
             ELSE IF c1 = 4709 /\ c3 = 4616                   \* 198: ብ, ለ
             THEN [found |-> TRUE, root |-> <<4709, 4613, 4616>>, laryngeal |-> 4613]
             ELSE NoRoot

---------------------------------------------------------------------------
(* GeezStemmer.strip_affixes: one pass of the while loop *)

\* The prefix loop reaches prefixes[n], which matches, and does not skip it
\* with "continue" (the guards of prefix መ).
PrefixConsidered(current_word, n) ==
    LET prefix == prefixes[n]
        remaining == DropFirst(current_word, Len(prefix))
        remaining_skeleton == get_consonant_skeleton(remaining)
    IN  /\ StartsWith(current_word, prefix)
        /\ ~ /\ prefix = <<4632>>                             \* 227: መ
             /\ \/ current_word \in nouns
                \/ /\ Len(remaining) > 0
                   /\ get_char_order(remaining[Len(remaining)]) = 1
                   /\ Len(remaining_skeleton) >= 3
                   /\ get_consonant_skeleton(current_word) \in quadriliterals

\* A strip rule that accepts every remainder.
PrefixRuleAnyRemainder(remaining) == TRUE

\* The length rule of a prefix strip (238, 250).
PrefixRule(remaining) ==
    LET remaining_skeleton == get_consonant_skeleton(remaining)
    IN  \/ Len(remaining_skeleton) >= 3
        \/ Len(remaining_skeleton) = 2 /\ is_weak_root_candidate(remaining)

PrefixStrips(current_word, n) ==
    /\ PrefixConsidered(current_word, n)
    /\ PrefixRule(DropFirst(current_word, Len(prefixes[n])))

\* A suffix rule that accepts every remainder.
SuffixRuleAnyRemainder(remaining) == TRUE

\* The length rule of a suffix strip (271, 283-291).
SuffixRule(remaining) ==
    LET remaining_skeleton == get_consonant_skeleton(remaining)
    IN  \/ Len(remaining_skeleton) >= 3
        \/ /\ Len(remaining_skeleton) = 2
           /\ \/ is_weak_root_candidate(remaining)
              \/ reconstruct_laryngeal_middle(remaining_skeleton).found

SuffixStrips(current_word, n) ==
    /\ EndsWith(current_word, suffixes[n])
    /\ SuffixRule(DropLast(current_word, Len(suffixes[n])))

StrippablePrefixes(current_word) == {n \in 1..Len(prefixes) : PrefixStrips(current_word, n)}
StrippableSuffixes(current_word) == {n \in 1..Len(suffixes) : SuffixStrips(current_word, n)}

---------------------------------------------------------------------------
(* src/src/decomposer.py: detect_verb_home *)

LARYNGEALS == {4608, 4624, 4736, 4768, 4816}      \* 114: ሀ ሐ ኀ አ ዐ
WEAK_CONSONANTS == {4808, 4840}                   \* 117: ወ የ

\* Every radical is read as first order.
RadicalVowelFirstOrder(stem, i) == 1

\* get_radical_vowels(stem).get(key, 1) for key C1..C4 (i = 1..4).
RadicalVowel(stem, i) == IF i <= Len(stem) THEN get_char_order(stem[i]) ELSE 1

\* A confidence is written in hundredths: 95 is 0.95.
build_home_result(verb_type, confidence, evidence, radical_count, has_laryngeal, laryngeal_positions, is_hollow, hollow_type) ==
    [type |-> verb_type, confidence |-> confidence, evidence |-> evidence,
     radical_count |-> radical_count,
     features |->
        IF has_laryngeal /\ is_hollow
        THEN [has_laryngeal |-> TRUE, is_hollow |-> TRUE,
              laryngeal_positions |-> laryngeal_positions, hollow_type |-> hollow_type]
        ELSE IF has_laryngeal
        THEN [has_laryngeal |-> TRUE, is_hollow |-> FALSE,
              laryngeal_positions |-> laryngeal_positions]
        ELSE IF is_hollow
        THEN [has_laryngeal |-> FALSE, is_hollow |-> TRUE, hollow_type |-> hollow_type]
        ELSE [has_laryngeal |-> FALSE, is_hollow |-> FALSE]]

\* The positions (1 for C1, ...) and bases of the radicals found laryngeal,
\* in order: the entries "C<i>=<base>" of laryngeal_positions.
RECURSIVE LaryngealPositions(_, _)
LaryngealPositions(skeleton, i) ==
    IF i > Len(skeleton) THEN << >>
    ELSE (IF devowelize(skeleton[i]) \in LARYNGEALS
          THEN << <<i, devowelize(skeleton[i])>> >> ELSE << >>)
         \o LaryngealPositions(skeleton, i + 1)

\* The type "type_mahräka" of the source is written type_mahraka.  An
\* evidence string is the tuple of its fixed text and the number it names.
detect_verb_home(skeleton, source_stem) ==
    LET radical_count == Len(skeleton)
        c1_order == RadicalVowel(source_stem, 1)
        c2_order == RadicalVowel(source_stem, 2)
        laryngeal_positions == LaryngealPositions(skeleton, 1)
        is_hollow == Len(skeleton) >= 2 /\ devowelize(skeleton[2]) \in WEAK_CONSONANTS
        hollow_type == IF ~is_hollow THEN "None"
                       ELSE IF devowelize(skeleton[2]) = 4808 THEN "hollow_w" ELSE "hollow_y"
        \* the type, the confidence and the evidence of the branch taken
        home == IF radical_count = 4
                THEN IF c2_order = 6
                     THEN <<"type_tanbala", 95, <<"4 radicals + C2 is 6th order">> >>
                     ELSE <<"type_mahraka", 90, <<"4 radicals (quadriliteral)">> >>
                ELSE IF radical_count # 3
                THEN <<"type_a", 50, <<"Unusual radical count", radical_count>> >>
                ELSE IF c1_order = 5
                THEN <<"type_b", 95, <<"C1 is 5th order -> Type B">> >>
                ELSE IF c1_order = 4
                THEN <<"type_c", 95, <<"C1 is 4th order -> Type C">> >>
                ELSE IF c1_order = 7
                THEN <<"type_c_o", 95, <<"C1 is 7th order -> Type C-O">> >>
                ELSE <<"type_a", 80, <<"Default -> Type A, C1 order", c1_order>> >>
    IN  build_home_result(home[1], home[2], home[3], radical_count,
                          laryngeal_positions # << >>, laryngeal_positions,
                          is_hollow, hollow_type)

\* No verb home: the default None of the argument verb_home.
NoHome == [type |-> "none"]

---------------------------------------------------------------------------
(* GeezStemmer.identify_verb_pattern, _get_root_type, _build_result *)

\* any(p in listed for p in prefixes)
AnyIn(found, listed) == \E i \in 1..Len(found) : found[i] \in listed

Pattern(name, stem_number) == [name |-> name, stem_number |-> stem_number]

identify_verb_pattern(stem, found) ==
    LET skeleton == get_consonant_skeleton(stem)
    IN  IF AnyIn(found, {<<4843, 4661, 4720>>, <<4723, 4661, 4720>>,
                         <<4755, 4661, 4720>>})              \* 328: ያስተ ታስተ ናስተ
        THEN Pattern("causative_passive_imperfective", 4)
        ELSE IF AnyIn(found, {<<4619, 4661, 4720>>})         \* 329: ላስተ
        THEN Pattern("causative_passive_jussive", 4)
        ELSE IF AnyIn(found, {<<4768, 4661, 4720>>, <<4632, 4661, 4720>>})  \* 330: አስተ መስተ
        THEN Pattern("causative_passive_perfective", 4)
        ELSE IF AnyIn(found, {<<4843>>, <<4723>>, <<4755>>, <<4843, 4661>>,
                              <<4723, 4661>>, <<4755, 4661>>})   \* 360: ያ ታ ና ያስ ታስ ናስ
        THEN Pattern("causative_imperfective", 3)
        ELSE IF AnyIn(found, {<<4619, 4661>>})               \* 361: ላስ
        THEN Pattern("causative_jussive", 3)
        ELSE IF AnyIn(found, {<<4768>>}) /\ Len(found) = 1   \* 381: አ
        THEN Pattern("causative_perfective", 3)
        ELSE IF AnyIn(found, {<<4768, 4661>>}) /\ Len(found) = 1   \* 390: አስ
        THEN Pattern("causative_perfective", 3)
        \* 402: ይት, and ት, እ, ን each followed by U+05EA (1514)
        ELSE IF AnyIn(found, {<<4845, 4725>>, <<4725, 1514>>, <<4773, 1514>>, <<4757, 1514>>})
        THEN Pattern("passive_imperfective", 2)
        ELSE IF /\ AnyIn(found, {<<4720>>})                  \* 413: ተ; ያ ታ ና አስተ
                /\ ~AnyIn(found, {<<4843>>, <<4723>>, <<4755>>, <<4768, 4661, 4720>>})
        THEN Pattern("passive_perfective", 2)
        ELSE IF AnyIn(found, {<<4845>>, <<4725>>, <<4773>>, <<4757>>})   \* 425: ይ ት እ ን
        THEN Pattern("imperfective", 1)
        ELSE IF Len(stem) >= 2 /\ get_char_order(stem[1]) = 6
        THEN Pattern("imperative", 1)
        ELSE IF Len(skeleton) >= 3 /\ Len(stem) > 0 /\ get_char_order(stem[Len(stem)]) = 1
        THEN Pattern("perfective", 1)
        ELSE Pattern("unknown", 0)

get_root_type(root) ==
    IF root \in lexicon_roots THEN LexiconType(root)
    ELSE IF Len(root) = 4 THEN "quadriliteral"
    ELSE IF Len(root) >= 2 /\ devowelize(root[2]) = 4808 THEN "hollow_w"     \* ወ
    ELSE IF Len(root) >= 2 /\ devowelize(root[2]) = 4840 THEN "hollow_y"     \* የ
    ELSE IF Len(root) >= 1 /\ devowelize(root[1]) = 4808 THEN "weak_initial"
    ELSE "strong"

\* One entry of a derivation path.
Step(n, action, before, after) ==
    [step |-> n, action |-> action, before |-> before, after |-> after]

\* The confidence of a result built by _build_result, in hundredths.
MethodConfidence(method) ==
    IF method = "lexicon" THEN 95 ELSE IF method = "derived" THEN 85 ELSE 70

build_result(word, root, stem, found_prefixes, found_suffixes, derivation_steps, method) ==
    LET pattern == identify_verb_pattern(stem, found_prefixes)
        home == detect_verb_home(root, stem)
        is_causative == AnyIn(found_prefixes, causative_prefixes)
        causative_prefix ==
            found_prefixes[First({i \in 1..Len(found_prefixes) :
                                     found_prefixes[i] \in causative_prefixes})]
        \* verb_home['features'] gains the keys is_causative, causative_prefix
        verb_home ==
            IF is_causative
            THEN [home EXCEPT !.features =
                     [k \in DOMAIN home.features \cup {"is_causative", "causative_prefix"} |->
                         IF k = "is_causative" THEN TRUE
                         ELSE IF k = "causative_prefix" THEN causative_prefix
                         ELSE home.features[k]]]
            ELSE home
    IN  [input |-> word,
         root |-> root,
         root_consonants |-> root,
         root_type |-> get_root_type(root),
         verb_home |-> verb_home,
         confidence |-> MethodConfidence(method),
         analysis |-> [stem |-> stem, pattern |-> pattern, prefixes |-> found_prefixes,
                       suffixes |-> found_suffixes, method |-> method,
                       is_causative |-> is_causative],
         derivation_path |->
            Append(derivation_steps,
                   Step(Len(derivation_steps) + 1, "detect_verb_home",
                        <<root, stem>>, home.type))]

---------------------------------------------------------------------------
(* src/src/conjugator.py: EthioMorphGenerator *)

\* data/templates.json is not part of the sources; the tables below follow
\* the layout the generator reads (verb_type -> tense -> subjects ->
\* {prefix, suffix, vowel_map}) with the qatala and qaddasa paradigms.
\* A vowel_map is written as the orders of C1, C2, C3, ...
SubjectData(prefix, suffix, vowel_map) ==
    [prefix |-> prefix, suffix |-> suffix, vowel_map |-> vowel_map]

PerfectiveSubjects ==
    [subjects |->
        ("3sm" :> SubjectData(<< >>, << >>, <<1, 1, 1>>)) @@       \* ቀተለ
        ("3sf" :> SubjectData(<< >>, <<4725>>, <<1, 1, 1>>)) @@    \* ቀተለ + ት
        ("2sm" :> SubjectData(<< >>, <<4776>>, <<1, 1, 6>>)) @@    \* ቀተል + ከ
        ("3pm" :> SubjectData(<< >>, <<4769>>, <<1, 1, 6>>))]      \* ቀተል + ኡ

PrefixedSubjects(vowel_map) ==
    [subjects |->
        ("3sm" :> SubjectData(<<4845>>, << >>, vowel_map)) @@      \* ይ-
        ("3sf" :> SubjectData(<<4725>>, << >>, vowel_map)) @@      \* ት-
        ("2sf" :> SubjectData(<<4725>>, <<4770>>, vowel_map)) @@   \* ት- ... + ኢ
        ("3pm" :> SubjectData(<<4845>>, <<4769>>, vowel_map)) @@   \* ይ- ... + ኡ
        ("3pf" :> SubjectData(<<4845>>, <<4771>>, vowel_map))]     \* ይ- ... + ኣ

ImperativeSubjects(vowel_map) ==
    [subjects |-> ("2sm" :> SubjectData(<< >>, << >>, vowel_map))]

\* The passive stem: ተ- before the radicals.
PassivePerfectiveSubjects ==
    [subjects |->
        ("3sm" :> SubjectData(<<4720>>, << >>, <<1, 1, 1>>)) @@    \* ተ + ቀተለ
        ("3pm" :> SubjectData(<<4720>>, <<4769>>, <<1, 1, 6>>))]   \* ተ + ቀተል + ኡ

\* A derived nominal: {prefix, suffix, pattern}; the pattern is written as
\* the orders of C1, C2, C3.
DerivedForms ==
    [infinitive |-> [prefix |-> << >>, suffix |-> << >>, pattern |-> <<1, 4, 6>>],   \* ቀታል
     place_noun |-> [prefix |-> <<4633>>, suffix |-> << >>, pattern |-> <<6, 1, 6>>]] \* ም-

ModelTemplates ==
    [types |->
        [type_a |-> [perfective |-> PerfectiveSubjects,
                     imperfective |-> PrefixedSubjects(<<1, 6, 6>>),
                     jussive |-> PrefixedSubjects(<<6, 6, 6>>),
                     imperative |-> ImperativeSubjects(<<6, 6, 6>>),
                     derived |-> DerivedForms],
         type_a_passive |-> [perfective |-> PassivePerfectiveSubjects],
         type_b |-> [perfective |-> PerfectiveSubjects,
                     imperfective |-> PrefixedSubjects(<<5, 6, 6>>),
                     jussive |-> PrefixedSubjects(<<1, 6, 6>>),
                     imperative |-> ImperativeSubjects(<<1, 6, 6>>)],
         weak_initial |-> [perfective |-> PerfectiveSubjects,
                           imperfective |-> PrefixedSubjects(<<1, 6, 6>>),
                           jussive |-> PrefixedSubjects(<<6, 1, 6>>),
                           imperative |-> ImperativeSubjects(<<6, 1, 6>>)],
         hollow_w |-> [perfective |-> PerfectiveSubjects,
                       imperfective |-> PrefixedSubjects(<<1, 6, 6>>)]],
     weak_root_rules |->
        [hollow_w |-> [perfective_transform |-> [C1 |-> 7, C3 |-> 1]],
         hollow_y |-> [perfective_transform |-> [C1 |-> 5, C3 |-> 1]]]]

\* _load_data (52-70): the tables stay empty when the data files are missing.
EmptyTemplates == [types |-> << >>, weak_root_rules |-> << >>]

templates == IF lexicon = EmptyLexicon THEN EmptyTemplates ELSE ModelTemplates

\* The verb types whose name holds _passive, _causative, _aste or
\* _reciprocal (303-305).
DerivedStemTemplateTypes ==
    {t \in DOMAIN templates.types :
        t \in {"type_a_passive", "type_a_causative", "type_a_aste", "type_a_reciprocal"}}

VOWEL_SUFFIX_MAP == {<<(<<4769>>), 2>>, <<(<<4771>>), 4>>, <<(<<4770>>), 3>>}   \* ኡ ኣ ኢ

\* The order "DROP" of a radical that is not rendered.
DROP == 0

change_order(char, target_order) ==
    IF target_order = DROP THEN << >>
    ELSE <<get_char_by_order(devowelize(char), target_order)>>

\* _detect_weak_root: the type of the weak root, or "none" for None.
detect_weak_root(root_chars) ==
    IF Len(root_chars) >= 2 /\ root_chars[2] = 4808 THEN "hollow_w"
    ELSE IF Len(root_chars) >= 2 /\ root_chars[2] = 4840 THEN "hollow_y"
    ELSE IF Len(root_chars) >= 1 /\ root_chars[1] = 4808 THEN "weak_initial"
    ELSE "none"

\* The suffix is never absorbed.
apply_fusion_never(final_base, final_target_order, suffix) ==
    [char |-> change_order(final_base, final_target_order), suffix |-> suffix,
     fused |-> FALSE]

\* _apply_fusion: (final_char, remaining_suffix, is_fused)
apply_fusion(final_base, final_target_order, suffix) ==
    IF final_target_order # 6
    THEN [char |-> change_order(final_base, final_target_order),
          suffix |-> suffix, fused |-> FALSE]
    ELSE IF \E e \in VOWEL_SUFFIX_MAP : e[1] = suffix
    THEN [char |-> change_order(final_base,
                                (CHOOSE e \in VOWEL_SUFFIX_MAP : e[1] = suffix)[2]),
          suffix |-> << >>, fused |-> TRUE]
    ELSE [char |-> change_order(final_base, 6), suffix |-> suffix, fused |-> FALSE]

\* The prefixes of _handle_prefixes after the sort by length: አስተ አን ተ አ ነ
root_prefixes == << <<4768, 4661, 4720>>, <<4768, 4757>>, <<4720>>, <<4768>>, <<4752>> >>

\* _handle_prefixes: (clean_root, prefix_chars)
handle_prefixes(root) ==
    LET hits == {n \in 1..Len(root_prefixes) :
                    StartsWith(root, root_prefixes[n]) /\ Len(root) > Len(root_prefixes[n])}
    IN  IF hits = {} THEN [clean_root |-> root, prefix |-> << >>]
        ELSE [clean_root |-> DropFirst(root, Len(root_prefixes[First(hits)])),
              prefix |-> root_prefixes[First(hits)]]

\* _apply_laryngeal_rules: position is the index of the radical (2 is C2).
apply_laryngeal_rules(char, order, position, tense, verb_type, features) ==
    LET base == devowelize(char)
    IN  IF verb_type = "type_d" /\ tense = "imperfective" /\ position = 2 THEN DROP
        ELSE IF features.has_laryngeal /\ tense = "jussive" /\ base \in LARYNGEALS THEN 4
        ELSE IF /\ features.has_laryngeal /\ tense = "imperfective" /\ position = 2
                /\ \E n \in 1..Len(features.laryngeal_positions) :
                      features.laryngeal_positions[n] = <<2, base>>
        THEN 4
        ELSE order

\* An error result that also holds a word.
GenErrorWithWord(kind) == [error |-> TRUE, kind |-> kind, word |-> << >>]

\* An error result: {"error": ...} and no word.
GenError(kind) == [error |-> TRUE, kind |-> kind]

\* vowel_map.get(key, 1) for the key of radical i
VowelOrder(vowel_map, i) == IF i \in DOMAIN vowel_map THEN vowel_map[i] ELSE 1

\* 349-382: the prefix written before the radicals.
final_prefix(subject_prefix, prefix_adjustment, tense) ==
    LET fused(ya, ta, a, na) ==
            IF tense = "perfective" THEN prefix_adjustment
            ELSE IF subject_prefix = <<4845>> THEN ya          \* ይ
            ELSE IF subject_prefix = <<4725>> THEN ta          \* ት
            ELSE IF subject_prefix = <<4773>> THEN a           \* እ
            ELSE IF subject_prefix = <<4757>> THEN na          \* ን
            ELSE subject_prefix \o prefix_adjustment
    IN  IF prefix_adjustment = << >> THEN subject_prefix
        ELSE IF prefix_adjustment = <<4768, 4757>>             \* አን
        THEN fused(<<4843, 4757>>, <<4723, 4757>>, <<4768, 4757>>, <<4755, 4757>>)
        ELSE IF prefix_adjustment = <<4768, 4661, 4720>>       \* አስተ
        THEN fused(<<4843, 4661, 4720>>, <<4723, 4661, 4720>>, <<4768, 4661, 4720>>,
                   <<4755, 4661, 4720>>)
        ELSE IF prefix_adjustment = <<4768>>                   \* አ
        THEN fused(<<4843>>, <<4723>>, <<4768>>, <<4755>>)
        ELSE subject_prefix \o prefix_adjustment

Shift(consonant, base, order, result) ==
    [consonant |-> consonant, base |-> base, order |-> order, result |-> result]

NoFusion == [fused |-> FALSE]

\* 393-430: a hollow root in the perfective.  [chars, suffix, shifts, fusion]
render_hollow(root_chars, weak_type, vowel_map, suffix) ==
    LET weak_rules == templates.weak_root_rules
        transform == IF weak_type \in DOMAIN weak_rules
                     THEN weak_rules[weak_type].perfective_transform ELSE << >>
        c1_order == IF "C1" \in DOMAIN transform THEN transform.C1
                    ELSE VowelOrder(vowel_map, 1)
        c3_order == IF "C3" \in DOMAIN transform THEN transform.C3
                    ELSE VowelOrder(vowel_map, 3)
        c1_out == change_order(root_chars[1], c1_order)
        f == apply_fusion(root_chars[3], c3_order, suffix)
    IN  [chars |-> c1_out \o f.char,
         suffix |-> f.suffix,
         shifts |-> <<Shift(1, root_chars[1], c1_order, c1_out),
                      Shift(2, root_chars[2], DROP, << >>),
                      Shift(3, root_chars[3], c3_order, f.char)>>,
         fusion |-> IF f.fused
                    THEN [fused |-> TRUE, original_suffix |-> suffix, fused_with |-> 3,
                          result |-> f.char]
                    ELSE NoFusion]

\* 433-488: the radicals from the i-th on, one pass of the loop per radical.
RECURSIVE render_radicals(_, _, _, _, _, _, _, _, _)
render_radicals(root_chars, i, last, weak_type, vowel_map, tense, verb_type, features, acc) ==
    IF i > last THEN acc
    ELSE LET base == root_chars[i]
             order == apply_laryngeal_rules(base, VowelOrder(vowel_map, i), i, tense,
                                            verb_type, features)
             dropped == [acc EXCEPT !.shifts = Append(@, Shift(i, base, DROP, << >>))]
             f == apply_fusion(base, order, acc.suffix)
             shifted == change_order(base, order)
             next ==
                 IF i = 1 /\ weak_type = "weak_initial" /\ tense \in {"jussive", "imperative"}
                 THEN dropped
                 ELSE IF order = DROP THEN dropped
                 ELSE IF i = last /\ acc.suffix # << >>
                 THEN [chars |-> acc.chars \o f.char,
                       suffix |-> IF f.fused THEN f.suffix ELSE acc.suffix,
                       shifts |-> Append(acc.shifts, Shift(i, base, order, f.char)),
                       fusion |-> IF f.fused
                                  THEN [fused |-> TRUE, original_suffix |-> acc.suffix,
                                        fused_with |-> i, result |-> f.char]
                                  ELSE acc.fusion]
                 ELSE [acc EXCEPT !.chars = @ \o shifted,
                                  !.shifts = Append(@, Shift(i, base, order, shifted))]
         IN  render_radicals(root_chars, i + 1, last, weak_type, vowel_map, tense,
                             verb_type, features, next)

\* tense_data.get("subjects", {})
Subjects(tense_data) ==
    IF "subjects" \in DOMAIN tense_data THEN tense_data.subjects ELSE << >>

\* 330-530: the word and its derivation, once the root, the verb type and
\* the subject's template are settled.
render_word(root_chars, verb_type, verb_home, prefix_adjustment, tense, subject_key, subject_data) ==
    LET features == verb_home.features
        weak_type == IF Len(root_chars) = 3 THEN detect_weak_root(root_chars)
                     ELSE "none"
        prefix == final_prefix(subject_data.prefix, prefix_adjustment, tense)
        last == IF Len(root_chars) >= 4 THEN 4 ELSE 3
        rendered ==
            IF weak_type \in {"hollow_w", "hollow_y"} /\ tense = "perfective"
            THEN render_hollow(root_chars, weak_type, subject_data.vowel_map,
                               subject_data.suffix)
            ELSE render_radicals(root_chars, 1, last, weak_type,
                                 subject_data.vowel_map, tense, verb_type, features,
                                 [chars |-> << >>, suffix |-> subject_data.suffix,
                                  shifts |-> << >>, fusion |-> NoFusion])
    IN  [error |-> FALSE,
         word |-> prefix \o rendered.chars \o rendered.suffix,
         derivation |->
            [root |-> root_chars,
             root_type |-> IF weak_type = "none" THEN "strong" ELSE weak_type,
             verb_type |-> verb_type,
             verb_home |-> verb_home,
             tense |-> tense,
             subject |-> subject_key,
             vowel_shifts |-> rendered.shifts,
             prefix |-> prefix,
             suffix |-> subject_data.suffix,
             fusion |-> rendered.fusion,
             features_applied |->
                [laryngeal_shift |-> features.has_laryngeal,
                 hollow_handling |-> features.is_hollow,
                 weak_initial_drop |-> weak_type = "weak_initial",
                 causative_prefix |-> prefix_adjustment = <<4768>>]]]

\* generate_word(root, tense, subject_key, verb_type, verb_home); verb_type
\* "" and verb_home NoHome are the default None.
generate_word_home(root, tense, subject_key, verb_type_arg, verb_home_arg) ==
    LET handled == handle_prefixes(root)
        verb_home == IF verb_home_arg = NoHome
                     THEN detect_verb_home(get_consonant_skeleton(root), root)
                     ELSE verb_home_arg
        verb_type ==
            IF verb_type_arg # "" THEN verb_type_arg
            ELSE IF root \in lexicon_roots THEN LexiconType(root)
            ELSE verb_home.type
        is_derived_stem_template == verb_type \in DerivedStemTemplateTypes
        root_chars == IF handled.prefix # << >>
                      THEN get_consonant_skeleton(handled.clean_root)
                      ELSE get_consonant_skeleton(root)
        prefix_adjustment == IF handled.prefix # << >> /\ ~is_derived_stem_template
                             THEN handled.prefix ELSE << >>
    IN  IF Len(root_chars) < 3 THEN GenError("root_too_short")
        ELSE CHOOSE result \in
            {IF v \notin DOMAIN templates.types THEN GenError("unknown_verb_type")
             ELSE IF tense \notin DOMAIN templates.types[v] THEN GenError("unknown_tense")
             ELSE IF subject_key \notin DOMAIN Subjects(templates.types[v][tense])
             THEN GenError("unknown_subject")
             ELSE render_word(r, v, h, p, tense, subject_key,
                              Subjects(templates.types[v][tense])[subject_key]) :
                r \in {root_chars}, v \in {verb_type}, h \in {verb_home},
                p \in {prefix_adjustment}} : TRUE

\* generate_word(root, tense, subject_key, verb_type), verb_home not given.
generate_word(root, tense, subject_key, verb_type_arg) ==
    generate_word_home(root, tense, subject_key, verb_type_arg, NoHome)

\* _identify_stem: the stem number, its name and the template suffix.
identify_stem(prefix, original_root) ==
    LET clean == DropFirst(original_root, Len(prefix))
    IN  IF prefix = <<4720>>                                    \* ተ
        THEN IF Len(clean) >= 1 /\ get_char_order(clean[1]) = 4
             THEN [number |-> 5, name |-> "Reciprocal", template_suffix |-> "reciprocal"]
             ELSE [number |-> 2, name |-> "Passive", template_suffix |-> "passive"]
        ELSE IF prefix = <<4768, 4661, 4720>>                   \* አስተ
        THEN [number |-> 4, name |-> "Causative-Passive", template_suffix |-> "aste"]
        ELSE IF prefix = <<4768>>                               \* አ
        THEN [number |-> 3, name |-> "Causative", template_suffix |-> "causative"]
        ELSE [number |-> 1, name |-> "Basic", template_suffix |-> ""]

\* 574-583: the radicals the pattern names, each at the pattern's order.
RECURSIVE derived_radicals(_, _, _, _)
derived_radicals(root_chars, pattern, i, last) ==
    IF i > last THEN << >>
    ELSE (IF i <= Len(root_chars) /\ i \in DOMAIN pattern
          THEN change_order(root_chars[i], pattern[i]) ELSE << >>)
         \o derived_radicals(root_chars, pattern, i + 1, last)

\* generate_derived(root, derived_class, verb_type)
generate_derived(root, derived_class, verb_type_arg) ==
    LET verb_type == IF verb_type_arg # "" THEN verb_type_arg
                     ELSE IF root \in lexicon_roots THEN LexiconType(root)
                     ELSE "type_a"
    IN  IF verb_type \notin DOMAIN templates.types THEN GenError("unknown_verb_type")
        ELSE
        LET type_data == templates.types[verb_type]
            derived_templates == IF "derived" \in DOMAIN type_data
                                 THEN type_data.derived ELSE << >>
        IN  IF derived_class \notin DOMAIN derived_templates
            THEN GenError("derived_class_undefined")
            ELSE
            LET template == derived_templates[derived_class]
                root_chars == IF Len(root) > 4
                              THEN get_consonant_skeleton(handle_prefixes(root).clean_root)
                              ELSE get_consonant_skeleton(root)
                last == IF Len(root_chars) >= 4 THEN 4 ELSE 3
            IN  [error |-> FALSE,
                 word |-> template.prefix
                             \o derived_radicals(root_chars, template.pattern, 1, last)
                             \o template.suffix,
                 type |-> verb_type,
                 class |-> derived_class]

\* 666-668 and 623-624: the top-level error object of expand_root.
ExpandError(kind) == [error |-> kind]

ExpandTenses == {"perfective", "imperfective", "jussive", "imperative"}

derived_keys == {"infinitive", "active_participle", "passive_participle", "instrumental", "verbal_noun", "abstract_noun", "verbal_noun_alt", "causative_agent", "passive_adj", "place_noun"}

\* 670-703: the matrix of a root whose verb type is a template key.
expand_matrix(root, gen_root, verb_type, verb_home, meta) ==
    LET type_data == templates.types[verb_type]
        gen_results(tense) ==
            [subject_key \in DOMAIN Subjects(type_data[tense])
                |-> generate_word_home(gen_root, tense, subject_key, verb_type, verb_home)]
        conjugations(results) ==
            [subject_key \in {k \in DOMAIN results : ~results[k].error}
                |-> results[subject_key]]
        derived_results == [key \in derived_keys |-> generate_derived(root, key, verb_type)]
        derived == [key \in {k \in derived_keys : ~derived_results[k].error}
                       |-> derived_results[key]]
    IN  [key \in {"_meta", "derived"} \cup (ExpandTenses \cap DOMAIN type_data) |->
            IF key = "_meta" THEN meta
            ELSE IF key = "derived" THEN derived
            ELSE [conjugations |-> conjugations(gen_results(key))]]

\* expand_root(root, verb_type): the error object, or the matrix with the
\* keys _meta, derived and one key per tense of the type.
expand_root(root, verb_type_arg) ==
    LET handled == handle_prefixes(root)
        stem_prefix == handled.prefix
        stem_info == identify_stem(stem_prefix, root)
        stem_suffix == stem_info.template_suffix
        analysis_root == IF stem_prefix # << >> THEN handled.clean_root ELSE root
        root_chars == get_consonant_skeleton(analysis_root)
        detected == detect_verb_home(root_chars, analysis_root)
        verb_home == [detected EXCEPT !.features =
                         [stem_number |-> stem_info.number, stem_prefix |-> stem_prefix,
                          stem_type |-> stem_info.name] @@ @]
        base_type == IF analysis_root \in lexicon_roots THEN LexiconType(analysis_root)
                     ELSE detected.type
        stem_type == base_type \o "_" \o stem_suffix
        verb_type == IF stem_suffix # "" /\ stem_type \in DOMAIN templates.types
                     THEN stem_type
                     ELSE IF verb_type_arg = "" THEN base_type ELSE verb_type_arg
        weak_type == IF Len(root_chars) = 3 THEN detect_weak_root(root_chars) ELSE "none"
        gen_root == IF stem_suffix # "" THEN analysis_root ELSE root
        meta == [root |-> root, base_root |-> analysis_root,
                 root_consonants |-> root_chars,
                 root_type |-> IF weak_type = "none" THEN "strong" ELSE weak_type,
                 verb_type |-> verb_type,
                 stem |-> [number |-> stem_info.number, name |-> stem_info.name,
                           prefix |-> stem_prefix],
                 verb_home |-> verb_home]
    IN  IF Len(root_chars) < 3 THEN ExpandError("root_too_short")
        ELSE IF verb_type \notin DOMAIN templates.types
        THEN ExpandError("unknown_verb_type")
        ELSE CHOOSE result \in {expand_matrix(root, g, v, h, m) :
                                   g \in {gen_root}, v \in {verb_type},
                                   h \in {verb_home}, m \in {meta}} : TRUE

\* data/stems.json is not part of the sources; the table follows the layout
\* generate_stem reads (stem_code -> {name, prefix, vowel_map}).
ModelStems ==
    [causative |-> [name |-> "Causative", prefix |-> <<4768>>, vowel_map |-> <<6, 1, 1>>],
     passive |-> [name |-> "Passive", prefix |-> <<4720>>, vowel_map |-> <<1, 1, 1>>]]

\* _load_data (52-70) assigns stems_data after templates.json has been read:
\* when the data files are missing the attribute does not exist.
\* A generator that reads stems.json on its first call rather than in __init__.
StemsLoadedOnFirstCall == lexicon # EmptyLexicon /\ q.calls > 0

StemsLoaded == lexicon # EmptyLexicon
stems_data == ModelStems

\* An exception that leaves the call.
Raised(kind) == [raised |-> kind]

\* 731-735: the radicals, each at the order of the stem's vowel map.
RECURSIVE stem_radicals(_, _, _, _)
stem_radicals(root_chars, vowel_map, i, last) ==
    IF i > last THEN << >>
    ELSE (IF i <= Len(root_chars)
          THEN change_order(root_chars[i], VowelOrder(vowel_map, i)) ELSE << >>)
         \o stem_radicals(root_chars, vowel_map, i + 1, last)

\* generate_stem(root, stem_code)
generate_stem(root, stem_code) ==
    IF Len(root) < 3 THEN GenError("root_too_short")
    ELSE IF ~StemsLoaded THEN Raised("AttributeError")
    ELSE IF stem_code \notin DOMAIN stems_data THEN GenError("unknown_stem_code")
    ELSE [error |-> FALSE, root |-> root, stem_code |-> stem_code,
          stem_name |-> stems_data[stem_code].name,
          word |-> stems_data[stem_code].prefix
                      \o stem_radicals(get_consonant_skeleton(root),
                                        stems_data[stem_code].vowel_map, 1,
                                        IF Len(root) >= 4 THEN 4 ELSE 3)]

\* expand_stems(root): one entry per stem code, whatever generate_stem gave.
expand_stems(root) ==
    IF ~StemsLoaded THEN Raised("AttributeError")
    ELSE [code \in DOMAIN stems_data |-> generate_stem(root, code)]

---------------------------------------------------------------------------
(* Sequences over a set, by length *)

SeqsOfLen(S, n) == [1..n -> S]
SeqsUpTo(S, n) == UNION {SeqsOfLen(S, k) : k \in 0..n}

Idle == [op |-> "idle"]

---------------------------------------------------------------------------
(* Calls of the character-table functions *)

\* Characters asked about: the table's members and some that are not in it:
\* a (97), space (32), ዐ (4816), ፂ (4930), ቈ (4680).
QueryChars == TableChars \cup {97, 32, 4816, 4930, 4680}
\* Bases asked about: the bases of the rows and some that are no base:
\* ዐ (4816), ሁ (4609), a (97).
QueryBases == Bases \cup {4816, 4609, 97}
QueryOrders == 0..8

TableInit ==
    /\ q \in [op : {"devowelize", "get_char_order"}, char : QueryChars,
              done : {FALSE}, ret : {0}]
             \cup [op : {"get_char_by_order"}, base : QueryBases,
                   order : QueryOrders, done : {FALSE}, ret : {0}]
    /\ st = Idle
    /\ lexicon = EmptyLexicon

Devowelize ==
    /\ q.op = "devowelize" /\ ~q.done
    /\ q' = [q EXCEPT !.done = TRUE, !.ret = devowelize(q.char)]
    /\ UNCHANGED <<lexicon, st>>

GetCharOrder ==
    /\ q.op = "get_char_order" /\ ~q.done
    /\ q' = [q EXCEPT !.done = TRUE, !.ret = get_char_order(q.char)]
    /\ UNCHANGED <<lexicon, st>>

GetCharByOrder ==
    /\ q.op = "get_char_by_order" /\ ~q.done
    /\ q' = [q EXCEPT !.done = TRUE, !.ret = get_char_by_order(q.base, q.order)]
    /\ UNCHANGED <<lexicon, st>>

TableNext == Devowelize \/ GetCharOrder \/ GetCharByOrder

SpecTable == TableInit /\ [][TableNext]_vars

---------------------------------------------------------------------------
(* Calls of detect_verb_home *)

\* The characters of the stems: ቀ ቃ ቄ ቅ ቆ (orders 1, 4, 5, 6, 7), ሐ, ወ,
\* ዐ, ዑ and the letter a.
HomeAlphabet == {4672, 4675, 4676, 4677, 4678, 4624, 4808, 4816, 4817, 97}

\* The skeletons detect_verb_home is given with a stem: the stem's own
\* (generate_word, expand_root) and, for a 2-character stem, the roots
\* extract_root reconstructs from it (C1+ወ+C2, ወ+C1+C2).
HomeSkeletons(source_stem) ==
    LET skeleton == get_consonant_skeleton(source_stem)
    IN  {skeleton} \cup
        (IF Len(skeleton) = 2
         THEN {<<skeleton[1], 4808, skeleton[2]>>, <<4808>> \o skeleton}
         ELSE {})

HomeInit ==
    /\ lexicon = EmptyLexicon
    /\ st = Idle
    /\ \E source_stem \in SeqsUpTo(HomeAlphabet, MaxHomeLen) :
       \E skeleton \in HomeSkeletons(source_stem) :
          q = [op |-> "detect_verb_home", skeleton |-> skeleton,
               source_stem |-> source_stem, done |-> FALSE, ret |-> NoHome]

DetectVerbHome ==
    /\ q.op = "detect_verb_home" /\ ~q.done
    /\ q' = [q EXCEPT !.done = TRUE, !.ret = detect_verb_home(q.skeleton, q.source_stem)]
    /\ UNCHANGED <<lexicon, st>>

HomeNext == DetectVerbHome

SpecHome == HomeInit /\ [][HomeNext]_vars

---------------------------------------------------------------------------
(* Calls of expand_root, generate_derived, generate_stem and expand_stems *)

\* ቀተለ ነገረ ሰበረ ቀደሰ ቀወመ ወለደ መሀረ, the short ቀመ, the quadriliteral መነገነ, and
\* ቀተለ behind the prefixes ተ, አ, አስተ and አን; ተቃተለ has C1 at order 4.
ExpandRoots ==
    {<<4672, 4720, 4616>>, <<4752, 4872, 4648>>, <<4656, 4704, 4648>>,
     <<4672, 4848, 4656>>, <<4672, 4808, 4632>>, <<4808, 4616, 4848>>,
     <<4632, 4608, 4648>>, <<4672, 4632>>, <<4632, 4752, 4872, 4752>>,
     <<4720, 4672, 4720, 4616>>, <<4720, 4675, 4720, 4616>>,
     <<4768, 4672, 4720, 4616>>, <<4768, 4661, 4720, 4672, 4720, 4616>>,
     <<4768, 4757, 4672, 4720, 4616>>, <<4720, 4672, 4632>>}

ExpandVerbTypes == {"", "type_a", "type_b", "nonexistent_type"}

DerivedClasses == {"infinitive", "place_noun", "agent"}

StemCodes == {"causative", "passive", "intensive"}

ExpandInit ==
    /\ lexicon \in {EmptyLexicon, ModelLexicon}
    /\ st = Idle
    /\ \/ q \in [op : {"expand_root"}, root : ExpandRoots, verb_type : ExpandVerbTypes,
                  done : {FALSE}, result : {ExpandError("none")}]
       \/ q \in [op : {"generate_derived"}, root : ExpandRoots,
                  derived_class : DerivedClasses, verb_type : ExpandVerbTypes,
                  done : {FALSE}, result : {GenError("none")}]
       \/ q \in [op : {"generate_stem"}, root : ExpandRoots, stem_code : StemCodes,
                  done : {FALSE}, result : {GenError("none")}]
       \/ q \in [op : {"expand_stems"}, root : ExpandRoots,
                  done : {FALSE}, result : {GenError("none")}]

\* conjugator.py 595-705
ExpandRoot ==
    /\ q.op = "expand_root" /\ ~q.done
    /\ \E result \in {expand_root(q.root, q.verb_type)} :
          q' = [q EXCEPT !.done = TRUE, !.result = result]
    /\ UNCHANGED <<lexicon, st>>

\* conjugator.py 532-593
GenerateDerived ==
    /\ q.op = "generate_derived" /\ ~q.done
    /\ \E result \in {generate_derived(q.root, q.derived_class, q.verb_type)} :
          q' = [q EXCEPT !.done = TRUE, !.result = result]
    /\ UNCHANGED <<lexicon, st>>

\* conjugator.py 707-748
GenerateStem ==
    /\ q.op = "generate_stem" /\ ~q.done
    /\ \E result \in {generate_stem(q.root, q.stem_code)} :
          q' = [q EXCEPT !.done = TRUE, !.result = result]
    /\ UNCHANGED <<lexicon, st>>

\* conjugator.py 750-755
ExpandStems ==
    /\ q.op = "expand_stems" /\ ~q.done
    /\ \E result \in {expand_stems(q.root)} :
          q' = [q EXCEPT !.done = TRUE, !.result = result]
    /\ UNCHANGED <<lexicon, st>>

ExpandNext == ExpandRoot \/ GenerateDerived \/ GenerateStem \/ ExpandStems

SpecExpand == ExpandInit /\ [][ExpandNext]_vars

---------------------------------------------------------------------------
(* Calls of normalize_geez, once and on its own output *)

\* The five merged rows of the table as listed in Rows (ሐ, ኀ, ሠ, ፀ, ዓ) and
\* the series each is meant to collapse onto (ሀ, ሀ, ሰ, ጸ, አ).
MergedRows == {3, 14, 5, 32, 21}
CanonicalBase(n) ==
    CASE n = 3 -> 4608 [] n = 14 -> 4608 [] n = 5 -> 4656
      [] n = 32 -> 4920 [] n = 21 -> 4768

\* Characters of the texts: the merged rows, their canonical series' first
\* and third orders, and ዐ (4816), ፂ (4930), space (32), a (97), ቀ (4672).
TextAlphabet ==
    {Rows[n][2][i] : n \in MergedRows, i \in 1..7}
      \cup {4608, 4610, 4656, 4920, 4768, 4816, 4930, 32, 97, 4672}

NormInit ==
    /\ q \in [op : {"normalize_geez"}, text : SeqsUpTo(TextAlphabet, MaxTextLen),
              calls : {0}, once : {<< >>}, twice : {<< >>}]
    /\ st = Idle
    /\ lexicon = EmptyLexicon

Normalize ==
    /\ q.op = "normalize_geez" /\ q.calls = 0
    /\ q' = [q EXCEPT !.calls = 1, !.once = normalize_geez(q.text)]
    /\ UNCHANGED <<lexicon, st>>

NormalizeAgain ==
    /\ q.op = "normalize_geez" /\ q.calls = 1
    /\ q' = [q EXCEPT !.calls = 2, !.twice = normalize_geez(q.once)]
    /\ UNCHANGED <<lexicon, st>>

NormNext == Normalize \/ NormalizeAgain

SpecNorm == NormInit /\ [][NormNext]_vars

---------------------------------------------------------------------------
(* GeezStemmer.extract_root, one call, step by step *)

\* The words of the repository's tests (tests/test_advanced.py,
\* tests/test_full_flow.py).
TestWords ==
    { <<4678, 4632>>,                          \* ቆመ
      <<4876, 4640>>,                          \* ጌሠ
      <<4708, 4720>>,                          \* ቤተ
      <<4632, 4624, 4648>>,                    \* መሐረ
      <<4720, 4616, 4808>>,                    \* ተለወ
      <<4768, 4632, 4648>>,                    \* አመረ
      <<4632, 4752, 4872, 4752>>,              \* መነገነ
      <<4848, 4757, 4877, 4920>>,              \* ደንግጸ
      <<4672, 4720, 4621, 4776, 4754>>,        \* ቀተልከኒ
      <<4740, 4653>>,                          \* ኄር
      <<4931>>,                                \* ፃ
      <<4630>>,                                \* ሖ
      <<4624, 4813, 4920, 4752>>,              \* ሐውጸነ
      <<4632, 4829, 4633, 4653>>,              \* መዝሙር
      <<4845, 4672, 4720, 4617>>,              \* ይቀተሉ
      <<4928, 4624, 4845>>,                    \* ፀሐይ
      <<4768, 4877, 4709, 4653, 4720>>,        \* አግብርተ
      <<4632, 4661, 4720, 4875, 4709, 4653>>,  \* መስተጋብር
      <<4612, 4848>> }                         \* ሄደ

\* The characters of the words drawn exhaustively: ቀ ቆ ቄ ለ መ ረ ተ ሐ ጺ ፃ ይ ደ
\* and the letter a.
WordAlphabet ==
    {4672, 4678, 4676, 4616, 4632, 4648, 4720, 4624, 4922, 4931, 4845, 4848, 97}

\* ቀተለ behind each listed prefix or none, before each listed suffix or none;
\* and ይቀተልከኒ, with a prefix and two suffixes.
AffixWords ==
    {prefixes[n] \o <<4672, 4720, 4616>> : n \in 1..Len(prefixes)}
        \cup {<<4845, 4672, 4720, 4621, 4776, 4754>>}
        \cup {<<4672, 4720, 4616>> \o suffixes[n] : n \in 1..Len(suffixes)}
        \cup {prefixes[n] \o <<4672, 4720, 4616>> \o suffixes[m] :
                 n \in 1..Len(prefixes), m \in 1..Len(suffixes)}

Words == (SeqsUpTo(WordAlphabet, MaxWordLen) \ {<< >>}) \cup TestWords \cup AffixWords

NoResult == [analysis |-> [method |-> "none"]]

\* extract_root has been called with word.
NewCall(word) ==
    [op |-> "extract_root", pc |-> "normalize", word |-> word, normalized |-> << >>,
     derivation_steps |-> << >>, current_word |-> << >>, found_prefixes |-> << >>,
     found_suffixes |-> << >>, affix_steps |-> << >>, result |-> NoResult]

\* The roots generate_word is asked to conjugate: the roots of the lexicon
\* file, and ሰበረ, አመረ, ቀመ, አቀተለ, ወለወለ.
GenRoots ==
    {ModelLexicon.roots[n].root : n \in 1..Len(ModelLexicon.roots)}
        \cup {<<4656, 4704, 4648>>, <<4768, 4632, 4648>>, <<4672, 4632>>,
              <<4768, 4672, 4720, 4616>>, <<4808, 4616, 4808, 4616>>}
GenTenses == {"perfective", "imperfective", "jussive", "imperative", "future", "derived"}
GenSubjects == {"3sm", "3sf", "2sm", "2sf", "3pm", "3pf", "1s"}
GenVerbTypes == {"", "type_a", "type_x"}

\* Either extract_root is called on a word, or generate_word is called and
\* extract_root is then called on the word it returns.
StemInit ==
    /\ lexicon \in {EmptyLexicon, ModelLexicon}
    /\ \/ /\ q = Idle
          /\ st \in {NewCall(word) : word \in Words}
       \/ /\ q \in [op : {"generate_word"}, root : GenRoots, tense : GenTenses,
                    subject_key : GenSubjects, verb_type : GenVerbTypes,
                    done : {FALSE}, result : {GenError("none")}]
          /\ st = Idle

\* conjugator.py 274-530
GenerateWord ==
    /\ q.op = "generate_word" /\ ~q.done
    /\ \E result \in {generate_word(q.root, q.tense, q.subject_key, q.verb_type)} :
          q' = [q EXCEPT !.done = TRUE, !.result = result]
    /\ UNCHANGED <<lexicon, st>>

\* extract_root(generate_word(...)["word"])
ExtractGenerated ==
    /\ q.op = "generate_word" /\ q.done /\ ~q.result.error
    /\ st = Idle
    /\ st' = NewCall(q.result.word)
    /\ UNCHANGED <<q, lexicon>>

\* 493-504
StemNormalize ==
    /\ st.op = "extract_root" /\ st.pc = "normalize"
    /\ LET normalized == normalize_geez(st.word)
       IN  st' = [st EXCEPT !.pc = "lookup", !.normalized = normalized,
                    !.derivation_steps =
                        IF st.word # normalized
                        THEN <<Step(1, "normalize", st.word, normalized)>> ELSE << >>]
    /\ UNCHANGED <<q, lexicon>>

\* one_char_map (507-512): ፃ, ጻ -> ወጸአ; ሖ, ሆ -> ሀወረ
one_char_keys == {<<4931>>, <<4923>>, <<4630>>, <<4614>>}
one_char_map(normalized) ==
    IF normalized \in {<<4931>>, <<4923>>} THEN <<4808, 4920, 4768>>
    ELSE <<4608, 4808, 4648>>

\* The lexicon is asked for the word as written, not for its skeleton.
IsLexiconKeyVerbatim(normalized) == normalized \in lexicon_roots

\* The conditions of the three early returns, in the order the code tests them.
IsOneChar(normalized) == Len(normalized) = 1 /\ normalized \in one_char_keys
IsLexiconKey(normalized) == get_consonant_skeleton(normalized) \in lexicon_roots
IsNoun(normalized) == normalized \in nouns

\* 506-523
OneCharLookup ==
    /\ st.op = "extract_root" /\ st.pc = "lookup"
    /\ IsOneChar(st.normalized)
    /\ LET root == one_char_map(st.normalized)
           steps == Append(st.derivation_steps,
                           Step(2, "one_char_lookup", st.normalized, root))
       IN  st' = [st EXCEPT !.pc = "done", !.derivation_steps = steps,
                    !.result = build_result(st.word, root, st.normalized,
                                            << >>, << >>, steps, "irregular")]
    /\ UNCHANGED <<q, lexicon>>

\* 525-535
LexiconMatch ==
    /\ st.op = "extract_root" /\ st.pc = "lookup"
    /\ ~IsOneChar(st.normalized)
    /\ IsLexiconKey(st.normalized)
    /\ LET skeleton_initial == get_consonant_skeleton(st.normalized)
           steps == Append(st.derivation_steps,
                           Step(2, "lexicon_match", st.normalized, skeleton_initial))
       IN  st' = [st EXCEPT !.pc = "done", !.derivation_steps = steps,
                    !.result = build_result(st.word, skeleton_initial, st.normalized,
                                            << >>, << >>, steps, "lexicon")]
    /\ UNCHANGED <<q, lexicon>>

\* 537-572
NounMatch ==
    /\ st.op = "extract_root" /\ st.pc = "lookup"
    /\ ~IsOneChar(st.normalized)
    /\ ~IsLexiconKey(st.normalized)
    /\ IsNoun(st.normalized)
    /\ LET noun_entry == NounEntry(st.normalized)
           has_root == "root" \in DOMAIN noun_entry
           root == IF has_root THEN noun_entry.root ELSE st.normalized
           skeleton == get_consonant_skeleton(root)
       IN  st' = [st EXCEPT !.pc = "done",
                    !.result =
                       [input |-> st.word,
                        root |-> root,
                        root_consonants |-> skeleton,
                        root_type |-> IF has_root THEN "derived_noun" ELSE "noun",
                        verb_home |-> detect_verb_home(skeleton, root),
                        confidence |-> 100,
                        analysis |-> [stem |-> st.normalized,
                                      pattern |-> [name |-> "noun"],
                                      prefixes |-> << >>, suffixes |-> << >>,
                                      method |-> "lexicon_noun"],
                        derivation_path |-> <<Step(1, "noun_match", st.normalized, root)>>]]
    /\ UNCHANGED <<q, lexicon>>

\* 574: strip_affixes(normalized) is entered (213-218)
BeginStrip ==
    /\ st.op = "extract_root" /\ st.pc = "lookup"
    /\ ~IsOneChar(st.normalized)
    /\ ~IsLexiconKey(st.normalized)
    /\ ~IsNoun(st.normalized)
    /\ st' = [st EXCEPT !.pc = "strip", !.current_word = st.normalized]
    /\ UNCHANGED <<q, lexicon>>

AffixStep(action, affix, before, after) ==
    [action |-> action, affix |-> affix, before |-> before, after |-> after]

\* A pass of the while loop in which a prefix is stripped (222-264).
StripPrefix ==
    /\ st.op = "extract_root" /\ st.pc = "strip"
    /\ StrippablePrefixes(st.current_word) # {}
    /\ LET prefix == prefixes[First(StrippablePrefixes(st.current_word))]
           remaining == DropFirst(st.current_word, Len(prefix))
       IN  st' = [st EXCEPT
                    !.affix_steps = Append(@, AffixStep("strip_prefix", prefix,
                                                        st.current_word, remaining)),
                    !.found_prefixes = Append(@, prefix),
                    !.current_word = remaining]
    /\ UNCHANGED <<q, lexicon>>

\* A pass that strips a suffix without looking at the prefixes.
StripSuffixFirst ==
    /\ st.op = "extract_root" /\ st.pc = "strip"
    /\ StrippableSuffixes(st.current_word) # {}
    /\ LET suffix == suffixes[First(StrippableSuffixes(st.current_word))]
           remaining == DropLast(st.current_word, Len(suffix))
       IN  st' = [st EXCEPT
                    !.affix_steps = Append(@, AffixStep("strip_suffix", suffix,
                                                        st.current_word, remaining)),
                    !.found_suffixes = Append(@, suffix),
                    !.current_word = remaining]
    /\ UNCHANGED <<q, lexicon>>

\* A pass in which no prefix is stripped and a suffix is (266-302).
StripSuffix ==
    /\ st.op = "extract_root" /\ st.pc = "strip"
    /\ StrippablePrefixes(st.current_word) = {}
    /\ StrippableSuffixes(st.current_word) # {}
    /\ LET suffix == suffixes[First(StrippableSuffixes(st.current_word))]
           remaining == DropLast(st.current_word, Len(suffix))
       IN  st' = [st EXCEPT
                    !.affix_steps = Append(@, AffixStep("strip_suffix", suffix,
                                                        st.current_word, remaining)),
                    !.found_suffixes = Append(@, suffix),
                    !.current_word = remaining]
    /\ UNCHANGED <<q, lexicon>>

\* A pass in which nothing is stripped: the loop ends and strip_affixes
\* returns (304).
StripReturn ==
    /\ st.op = "extract_root" /\ st.pc = "strip"
    /\ StrippablePrefixes(st.current_word) = {}
    /\ StrippableSuffixes(st.current_word) = {}
    /\ st' = [st EXCEPT !.pc = "derive"]
    /\ UNCHANGED <<q, lexicon>>

\* 575-577: each affix step gets step = len(derivation_steps) + 1 + i and is
\* appended to derivation_steps, whose length the next step number reads.
RECURSIVE NumberAffixSteps(_, _, _)
NumberAffixSteps(derivation_steps, affix_steps, i) ==
    IF i > Len(affix_steps) THEN derivation_steps
    ELSE NumberAffixSteps(
            Append(derivation_steps,
                   Step(Len(derivation_steps) + 1 + (i - 1), affix_steps[i].action,
                        affix_steps[i].before, affix_steps[i].after)),
            affix_steps, i + 1)

\* Order 7 on the stem's first character is read as a hidden የ.
ReconstructByOrderAlwaysY(root, stem, steps) ==
    IF ~(Len(root) = 2 /\ Len(stem) >= 1) THEN [root |-> root, steps |-> steps]
    ELSE IF get_char_order(stem[1]) \in {3, 5, 7}
    THEN [root |-> <<root[1], 4840, root[2]>>,
          steps |-> Append(steps, Step(Len(steps) + 1, "reconstruct_hollow_y", root,
                                       <<root[1], 4840, root[2]>>))]
    ELSE [root |-> root, steps |-> steps]

\* 589-629: the reconstruction tried on a 2-letter root by the order of the
\* stem's first character.  [root, steps]
ReconstructByOrder(root, stem, steps) ==
    IF ~(Len(root) = 2 /\ Len(stem) >= 1) THEN [root |-> root, steps |-> steps]
    ELSE LET order == get_char_order(stem[1])
             lar == reconstruct_laryngeal_middle(root)
             with(action, reconstructed) ==
                 [root |-> reconstructed,
                  steps |-> Append(steps, Step(Len(steps) + 1, action, root, reconstructed))]
         IN  IF order = 7 THEN with("reconstruct_hollow_w", <<root[1], 4808, root[2]>>)
             ELSE IF order \in {3, 5}
             THEN with("reconstruct_hollow_y", <<root[1], 4840, root[2]>>)
             ELSE IF lar.found THEN with("reconstruct_laryngeal_middle", lar.root)
             ELSE [root |-> root, steps |-> steps]

\* 631-656: what is tried on a root that is still 2 letters long.
ReconstructStill2(root, steps) ==
    IF Len(root) # 2 THEN [root |-> root, steps |-> steps]
    ELSE LET lar == reconstruct_laryngeal_middle(root)
             candidate == <<4808>> \o root
             with(action, reconstructed) ==
                 [root |-> reconstructed,
                  steps |-> Append(steps, Step(Len(steps) + 1, action, root, reconstructed))]
         IN  IF lar.found THEN with("reconstruct_laryngeal_middle", lar.root)
             ELSE IF candidate \in weak_initial_roots
             THEN with("reconstruct_weak_initial", candidate)
             ELSE [root |-> root, steps |-> steps]

\* 574-658, after strip_affixes has returned.
Derive ==
    /\ st.op = "extract_root" /\ st.pc = "derive"
    /\ \E steps1 \in {NumberAffixSteps(st.derivation_steps, st.affix_steps, 1)} :
       \E skeleton \in {get_consonant_skeleton(st.current_word)} :
       \E steps2 \in {Append(steps1, Step(Len(steps1) + 1, "devowelize",
                                          st.current_word, skeleton))} :
       \E r1 \in {ReconstructByOrder(skeleton, st.current_word, steps2)} :
       \E r2 \in {ReconstructStill2(r1.root, r1.steps)} :
       \E result \in {build_result(st.word, r2.root, st.current_word, st.found_prefixes,
                                   st.found_suffixes, r2.steps, "derived")} :
          st' = [st EXCEPT !.pc = "done", !.derivation_steps = r2.steps,
                           !.result = result]
    /\ UNCHANGED <<q, lexicon>>

StemNext ==
    \/ GenerateWord
    \/ ExtractGenerated
    \/ StemNormalize
    \/ OneCharLookup
    \/ LexiconMatch
    \/ NounMatch
    \/ BeginStrip
    \/ StripPrefix
    \/ StripSuffix
    \/ StripReturn
    \/ Derive

Spec == StemInit /\ [][StemNext]_vars

---------------------------------------------------------------------------
(* Calls of GeezStemmer._reconstruct_laryngeal_middle *)

\* ብ በ ለ ነ ከ መ ረ ሰ የ ፈ ደ ገ
LaryngealAlphabet ==
    {4709, 4704, 4616, 4752, 4776, 4632, 4648, 4656, 4840, 4936, 4848, 4872}

LaryngealInit ==
    /\ lexicon \in {EmptyLexicon, ModelLexicon}
    /\ q \in [op : {"reconstruct_laryngeal_middle"},
              skeleton : SeqsOfLen(LaryngealAlphabet, 2) \cup {<<4704>>, <<4704, 4613, 4616>>},
              done : {FALSE}, result : {NoRoot}]
    /\ st = Idle

\* stemmer.py 161-201
ReconstructLaryngealMiddle ==
    /\ q.op = "reconstruct_laryngeal_middle" /\ ~q.done
    /\ q' = [q EXCEPT !.done = TRUE,
                      !.result = reconstruct_laryngeal_middle(q.skeleton)]
    /\ UNCHANGED <<lexicon, st>>

LaryngealNext == ReconstructLaryngealMiddle

SpecLaryngeal == LaryngealInit /\ [][LaryngealNext]_vars

---------------------------------------------------------------------------
(* generate_word, 347-385: the prefix written for a subject prefix of the *)
(* template and the prefix _handle_prefixes took off the root             *)

\* The subject prefixes a template may give: none, ይ ት እ ን ል
SubjectPrefixes == {<< >>, <<4845>>, <<4725>>, <<4773>>, <<4757>>, <<4621>>}

\* What _handle_prefixes returns as prefix: none, or one of its five prefixes.
PrefixAdjustments == {<< >>} \cup {root_prefixes[n] : n \in 1..Len(root_prefixes)}

PrefixInit ==
    /\ lexicon = EmptyLexicon
    /\ q \in [op : {"final_prefix"}, subject_prefix : SubjectPrefixes,
              prefix_adjustment : PrefixAdjustments, tense : ExpandTenses,
              done : {FALSE}, result : {<< >>}]
    /\ st = Idle

\* conjugator.py 347-385
RenderPrefix ==
    /\ q.op = "final_prefix" /\ ~q.done
    /\ q' = [q EXCEPT !.done = TRUE,
                      !.result = final_prefix(q.subject_prefix, q.prefix_adjustment,
                                              q.tense)]
    /\ UNCHANGED <<lexicon, st>>

PrefixNext == RenderPrefix

SpecPrefix == PrefixInit /\ [][PrefixNext]_vars

---------------------------------------------------------------------------
(* Several calls on one GeezStemmer and one EthioMorphGenerator *)

\* The data files are read once, by the constructors (stemmer.py 28-55,
\* conjugator.py 45-70); the character maps are filled when decomposer.py is
\* imported (10-20) and the affix lists are built by __init__ (67-133).  No
\* method assigns to any of them afterwards: the tables are the definitions
\* above, and lexicon is the one variable the calls read.

NoCall == [name |-> "none"]

SessionRoots == {<<4672, 4720, 4616>>, <<4808, 4616, 4848>>}      \* ቀተለ ወለደ

\* ፃ, ቀተለ, መዝሙር, ይቀተልከ, ቆመ
SessionWords ==
    {<<4931>>, <<4672, 4720, 4616>>, <<4632, 4829, 4633, 4653>>,
     <<4845, 4672, 4720, 4621, 4776>>, <<4678, 4632>>}

SessionInit ==
    /\ lexicon = ModelLexicon
    /\ q = [op |-> "session", loaded |-> lexicon, calls |-> 0, xcalls |-> 0,
            first |-> NoCall, last |-> NoCall, xfirst |-> NoCall]
    /\ st = Idle

\* A generator method has been called and has returned: the session remembers
\* its first call and its latest one.
Called(name, args, result) ==
    [q EXCEPT !.calls = @ + 1,
              !.first = IF @.name = "none"
                        THEN [name |-> name, args |-> args, result |-> result] ELSE @,
              !.last = [name |-> name, args |-> args, result |-> result]]

\* conjugator.py 274-530
SessionGenerateWord ==
    /\ q.op = "session" /\ q.calls < MaxCalls
    /\ \E root \in SessionRoots :
       \E result \in {generate_word(root, "perfective", "3sm", "")} :
          q' = Called("generate_word", root, result)
    /\ UNCHANGED <<lexicon, st>>

\* conjugator.py 532-593
SessionGenerateDerived ==
    /\ q.op = "session" /\ q.calls < MaxCalls
    /\ \E root \in {<<4672, 4720, 4616>>} :
       \E result \in {generate_derived(root, "infinitive", "")} :
          q' = Called("generate_derived", root, result)
    /\ UNCHANGED <<lexicon, st>>

\* conjugator.py 707-748
SessionGenerateStem ==
    /\ q.op = "session" /\ q.calls < MaxCalls
    /\ \E root \in SessionRoots :
       \E result \in {generate_stem(root, "causative")} :
          q' = Called("generate_stem", root, result)
    /\ UNCHANGED <<lexicon, st>>

\* conjugator.py 595-705
SessionExpandRoot ==
    /\ q.op = "session" /\ q.calls < MaxCalls
    /\ \E root \in {<<4808, 4616, 4848>>} :
       \E result \in {expand_root(root, "")} :
          q' = Called("expand_root", root, result)
    /\ UNCHANGED <<lexicon, st>>

\* stemmer.py 463: extract_root is called, on a stemmer that has made no call
\* or has returned from one; the session remembers what the first call returned.
SessionExtractRoot ==
    /\ q.op = "session" /\ q.xcalls < MaxCalls
    /\ IF st = Idle THEN TRUE ELSE st.pc = "done"
    /\ \E word \in SessionWords : st' = NewCall(word)
    /\ q' = [q EXCEPT !.xcalls = @ + 1,
                      !.xfirst = IF @.name = "none" /\ st # Idle
                                 THEN [name |-> "extract_root", args |-> st.word,
                                       result |-> st.result]
                                 ELSE @]
    /\ UNCHANGED lexicon

SessionNext ==
    \/ SessionGenerateWord
    \/ SessionGenerateDerived
    \/ SessionGenerateStem
    \/ SessionExpandRoot
    \/ SessionExtractRoot
    \/ StemNormalize
    \/ OneCharLookup
    \/ LexiconMatch
    \/ NounMatch
    \/ BeginStrip
    \/ StripPrefix
    \/ StripSuffix
    \/ StripReturn
    \/ Derive

SpecSession == SessionInit /\ [][SessionNext]_vars

---------------------------------------------------------------------------
(* Claims about the character table (under SpecTable) *)

\* C5: for every base consonant b of the character table and every order k
\* in 1..7, devowelize(get_char_by_order(b, k)) = b.
C5_DevowelizeOfRender ==
    (q.op = "get_char_by_order" /\ q.done /\ q.base \in Bases /\ q.order \in 1..7)
        => devowelize(q.ret) = q.base

\* C6: for every character c of the table,
\* get_char_by_order(devowelize(c), get_char_order(c)) = c; for a character
\* that is not in the table devowelize returns c and get_char_order returns 0.
C6_OrderRoundTrip ==
    /\ (q.op = "devowelize" /\ q.done) =>
          IF q.char \in TableChars
          THEN get_char_by_order(q.ret, get_char_order(q.char)) = q.char
          ELSE q.ret = q.char
    /\ (q.op = "get_char_order" /\ q.done /\ q.char \notin TableChars) => q.ret = 0

\* The character two rows share, ጺ, has been devowelized (to the base of the
\* later row, ፀ).
C6_Witness ==
    q.op = "devowelize" /\ q.done /\ q.char = 4922 /\ q.ret = 4928

---------------------------------------------------------------------------
(* Claims about normalize_geez (under SpecNorm) *)

\* C7: normalize_geez is idempotent: normalizing the normalized text gives
\* the normalized text.
C7_NormalizeIdempotent ==
    (q.op = "normalize_geez" /\ q.calls = 2) => q.twice = q.once

\* A text that normalization changed has been normalized twice.
C7_Witness ==
    q.op = "normalize_geez" /\ q.calls = 2 /\ q.once # q.text /\ Len(q.text) = 2

\* C8: every character of the merged rows (ሐ, ኀ, ሠ, ፀ, ዓ; all seven
\* positions) normalizes to the character of the same order of its canonical
\* series, so no base of a merged series is left in the skeleton of a
\* normalized word.
C8_MergedSeriesCollapse ==
    (q.op = "normalize_geez" /\ q.calls >= 1) =>
        /\ \A n \in MergedRows, i \in 1..7 :
              q.text = <<Rows[n][2][i]>>
                  => q.once = <<get_char_by_order(CanonicalBase(n), i)>>
        /\ \A j \in 1..Len(q.once) :
              get_consonant_skeleton(q.once)[j] \notin {Rows[n][1] : n \in MergedRows}


---------------------------------------------------------------------------
(* Claims about extract_root (under Spec) *)

Returned == st.op = "extract_root" /\ st.pc = "done"

\* A lexicon root with a verb type the templates define and no weak radical.
StrongLexiconRoot(root) ==
    /\ root \in lexicon_roots
    /\ LexiconType(root) \in DOMAIN templates.types
    /\ detect_weak_root(get_consonant_skeleton(root)) = "none"

\* The (tense, subject) pair is present in the template of the root's type.
PairPresent(root, tense, subject_key) ==
    /\ tense \in DOMAIN templates.types[LexiconType(root)]
    /\ subject_key \in DOMAIN Subjects(templates.types[LexiconType(root)][tense])

\* C1: generate-then-extract round trip: for every strong (non-weak,
\* non-fused) lexicon root R with a defined verb type and every (tense,
\* subject) pair present in that type's template, generate_word(R, tense,
\* subject) returns a word, and extract_root of that word returns a root
\* equal to normalize(R).
C1_GenerateExtractRoundTrip ==
    (/\ q.op = "generate_word" /\ q.done /\ q.verb_type = ""
     /\ StrongLexiconRoot(q.root)
     /\ PairPresent(q.root, q.tense, q.subject_key)
     /\ ~q.result.error => ~q.result.derivation.fusion.fused)
        => /\ ~q.result.error
           /\ Returned => st.result.root = normalize_geez(q.root)

\* C2: extract_root never raises and always returns a result whose root is a
\* non-empty string, for every non-empty input string: a call that has not
\* returned can always take its next step, and a call that has returned
\* holds a result with a root of at least one character.
C2_RootNonEmpty ==
    /\ (st.op = "extract_root" /\ st.pc # "done") => ENABLED StemNext
    /\ Returned => (st.result.analysis.method # "none" /\ Len(st.result.root) > 0)

\* The non-Ge'ez one-letter word "a" has been analysed: root "a".
C2_Witness ==
    Returned /\ st.word = <<97>> /\ st.result.root = <<97>>

\* C3: hollow reconstruction: for a word that is not short-circuited
\* (irregular, lexicon, noun) and whose stem after affix stripping has exactly
\* 2 characters, order 7 on the first stem character gives root C1+ወ+C2 with
\* root_type hollow_w, and order 3 or 5 gives root C1+የ+C2 with root_type
\* hollow_y.
C3_HollowReconstruction ==
    (Returned /\ st.result.analysis.method = "derived"
              /\ Len(st.result.analysis.stem) = 2) =>
        LET stem == st.result.analysis.stem
            C1 == devowelize(stem[1])
            C2 == devowelize(stem[2])
            order == get_char_order(stem[1])
        IN  /\ order = 7 =>
                 (st.result.root = <<C1, 4808, C2>> /\ st.result.root_type = "hollow_w")
            /\ order \in {3, 5} =>
                 (st.result.root = <<C1, 4840, C2>> /\ st.result.root_type = "hollow_y")

\* ቆመ has been analysed as ቀወመ, hollow_w.
C3_Witness ==
    /\ Returned /\ st.word = <<4678, 4632>>
    /\ st.result.root = <<4672, 4808, 4632>> /\ st.result.root_type = "hollow_w"

\* C4: for every input word the returned root is in normalized form:
\* normalize(extract_root(w).root) = extract_root(w).root, on every path.
C4_RootNormalized ==
    Returned => normalize_geez(st.result.root) = st.result.root

\* C9: in every result of extract_root the step indices of derivation_path
\* are contiguous starting at 1 (the step of the i-th entry is i), on every
\* path.
C9_StepsContiguous ==
    Returned => \A i \in 1..Len(st.result.derivation_path) :
                    st.result.derivation_path[i].step = i

\* C10: lexicon short-circuit: for every word (other than the
\* single-character irregulars) whose normalized skeleton is a key of the
\* lexicon roots, extract_root returns that skeleton as root with confidence
\* 0.95, method "lexicon", and empty prefix and suffix lists, without running
\* affix stripping.
C10_LexiconShortCircuit ==
    (Returned /\ ~IsOneChar(normalize_geez(st.word))
              /\ get_consonant_skeleton(normalize_geez(st.word)) \in lexicon_roots) =>
        /\ st.result.root = get_consonant_skeleton(normalize_geez(st.word))
        /\ st.result.confidence = 95
        /\ st.result.analysis.method = "lexicon"
        /\ st.result.analysis.prefixes = << >>
        /\ st.result.analysis.suffixes = << >>
        /\ st.affix_steps = << >>
        /\ st.current_word = << >>

\* ቆተለ, whose skeleton ቀተለ is a lexicon root, has been analysed.
C10_Witness ==
    /\ Returned /\ st.word = <<4678, 4720, 4616>>
    /\ st.result.root = <<4672, 4720, 4616>> /\ st.result.analysis.method = "lexicon"


\* C11: the root returned by extract_root has 3 or 4 radicals; a root that
\* is still of length 2 after all reconstruction attempts is returned with a
\* confidence strictly below the 0.85 of a successfully derived root.
C11_RootLength ==
    Returned =>
        \/ Len(st.result.root) \in {3, 4}
        \/ Len(st.result.root) = 2 /\ st.result.confidence < 85

---------------------------------------------------------------------------
(* Claims about strip_affixes (under Spec) *)

Stripping == st.op = "extract_root" /\ st.pc = "strip"

\* C12: in every pass of the loop of strip_affixes the prefix list is scanned
\* first and the first strippable prefix is removed; a suffix is stripped
\* only if no listed prefix is strippable from the current word; after every
\* accepted strip the scan restarts from the prefixes; the loop stops exactly
\* when neither a prefix nor a suffix can be stripped.
C12_StripOrder ==
    [][Stripping =>
          LET P == {n \in 1..Len(prefixes) : PrefixStrips(st.current_word, n)}
              S == {n \in 1..Len(suffixes) : SuffixStrips(st.current_word, n)}
              firstP == CHOOSE n \in P : \A m \in P : n <= m
          IN  /\ P # {} =>
                    /\ st'.pc = "strip"
                    /\ st'.found_prefixes = Append(st.found_prefixes, prefixes[firstP])
                    /\ st'.found_suffixes = st.found_suffixes
                    /\ st'.current_word =
                          SubSeq(st.current_word, Len(prefixes[firstP]) + 1,
                                 Len(st.current_word))
              /\ Len(st'.found_suffixes) > Len(st.found_suffixes) =>
                    (P = {} /\ st'.pc = "strip")
              /\ (st'.pc = "derive") <=> (P = {} /\ S = {})]_vars

\* አግብርተ: the prefix አ and the suffix ተ were both strippable, and the prefix
\* was stripped first.
C12_Witness ==
    /\ Returned /\ st.word = <<4768, 4877, 4709, 4653, 4720>>
    /\ st.found_prefixes = <<(<<4768>>)>> /\ st.found_suffixes = <<(<<4720>>)>>
    /\ st.affix_steps[1].action = "strip_prefix"

\* The remainder of an accepted strip, as the rule describes it.
AcceptedRemainder(step) ==
    LET skeleton == get_consonant_skeleton(step.after)
    IN  \/ Len(skeleton) >= 3
        \/ /\ Len(skeleton) = 2
           /\ \/ get_char_order(step.after[1]) \in {7, 3, 5}
              \/ (<<4808>> \o skeleton) \in weak_initial_roots
              \/ /\ step.action = "strip_suffix"
                 /\ reconstruct_laryngeal_middle(skeleton).found

\* A 3-character word that begins with መ, ተ or አ and whose 2-character
\* remainder fails the weak-root-candidate test.
LookAlike(word) ==
    /\ Len(word) = 3
    /\ word[1] \in {4632, 4720, 4768}
    /\ ~is_weak_root_candidate(SubSeq(word, 2, 3))

\* C13 (as stated): every accepted strip leaves a remainder whose skeleton
\* has length >= 3, or exactly 2 with the remainder passing the
\* weak-root-candidate test (for suffixes also a laryngeal-middle
\* reconstruction); hence a 3-character word that begins with a prefix
\* look-alike and whose 2-character remainder fails the test is left
\* unstripped and its root is its own skeleton.
C13_StripAcceptance_AsStated ==
    /\ (st.op = "extract_root") =>
          \A i \in 1..Len(st.affix_steps) : AcceptedRemainder(st.affix_steps[i])
    /\ (Returned /\ st.result.analysis.method = "derived" /\ LookAlike(st.normalized)) =>
          /\ st.affix_steps = << >>
          /\ st.result.root = get_consonant_skeleton(st.normalized)

\* C13 (amended): every accepted strip leaves a remainder that satisfies the
\* acceptance rule; a 3-character look-alike word whose 2-character
\* remainder fails the test loses no prefix, and when no suffix strip is
\* accepted either its root is its own skeleton.
C13_StripAcceptance ==
    /\ (st.op = "extract_root") =>
          \A i \in 1..Len(st.affix_steps) : AcceptedRemainder(st.affix_steps[i])
    /\ (Returned /\ st.result.analysis.method = "derived" /\ LookAlike(st.normalized)) =>
          /\ st.found_prefixes = << >>
          /\ st.found_suffixes = << >> =>
                st.result.root = get_consonant_skeleton(st.normalized)

\* ተለወ is returned unstripped, with root ተለወ.
C13_Witness ==
    /\ Returned /\ st.word = <<4720, 4616, 4808>>
    /\ st.affix_steps = << >> /\ st.result.root = <<4720, 4616, 4808>>

\* C14: every accepted strip makes the current word strictly shorter, and a
\* call makes at most len(word) - 2 strips, so the loop of strip_affixes
\* reaches its fixed point.
C14_StripShrinks ==
    [][(Stripping /\ st'.affix_steps # st.affix_steps) =>
          /\ Len(st'.current_word) < Len(st.current_word)
          /\ Len(st'.affix_steps) = Len(st.affix_steps) + 1
          /\ Len(st'.affix_steps) <= Len(st.normalized) - 2]_vars

\* ቀተልከኒ has been stripped twice, down to ቀተል.
C14_Witness ==
    /\ st.op = "extract_root" /\ st.pc = "derive"
    /\ st.normalized = <<4672, 4720, 4621, 4776, 4754>>
    /\ Len(st.affix_steps) = 2 /\ st.current_word = <<4672, 4720, 4621>>


---------------------------------------------------------------------------
(* Claims about detect_verb_home (under SpecHome) *)

HomeReturned == q.op = "detect_verb_home" /\ q.done

\* C15: detect_verb_home classifies by fixed priority: 4 radicals give
\* type_tanbala (0.95) if radical 2 has order 6, else type_mahraka (0.90); a
\* radical count other than 3 or 4 gives type_a with confidence 0.5 and an
\* evidence naming the unusual count; with 3 radicals the order of C1
\* decides: 5 gives type_b (0.95), 4 type_c (0.95), 7 type_c_o (0.95),
\* anything else type_a (0.80).
C15_HomeClassification ==
    HomeReturned =>
        LET n == Len(q.skeleton)
            c1 == IF Len(q.source_stem) >= 1 THEN get_char_order(q.source_stem[1]) ELSE 1
            c2 == IF Len(q.source_stem) >= 2 THEN get_char_order(q.source_stem[2]) ELSE 1
            is(type, confidence) == q.ret.type = type /\ q.ret.confidence = confidence
        IN  /\ (n = 4 /\ c2 = 6) => is("type_tanbala", 95)
            /\ (n = 4 /\ c2 # 6) => is("type_mahraka", 90)
            /\ n \notin {3, 4} =>
                  (is("type_a", 50) /\ q.ret.evidence = <<"Unusual radical count", n>>)
            /\ (n = 3 /\ c1 = 5) => is("type_b", 95)
            /\ (n = 3 /\ c1 = 4) => is("type_c", 95)
            /\ (n = 3 /\ c1 = 7) => is("type_c_o", 95)
            /\ (n = 3 /\ c1 \notin {5, 4, 7}) => is("type_a", 80)

\* ቄቅቀ, three radicals with C1 of order 5, has been classified type_b.
C15_Witness ==
    /\ HomeReturned /\ q.source_stem = <<4676, 4677, 4672>>
    /\ q.skeleton = <<4672, 4672, 4672>> /\ q.ret.type = "type_b"

\* The character belongs to one of the five laryngeal series ሀ, ሐ, ኀ, አ, ዐ
\* (the seven orders that start at each base in the Ethiopic block).
InLaryngealSeries(char) == \E base \in LARYNGEALS : char \in base..(base + 6)

\* C16: for the skeleton of any word detect_verb_home sets has_laryngeal and
\* records in laryngeal_positions, in order, the position of every radical
\* that belongs to one of the five laryngeal series, and sets has_laryngeal
\* false only when no radical belongs to any of them.
C16_LaryngealDetection ==
    (HomeReturned /\ q.skeleton = get_consonant_skeleton(q.source_stem)) =>
        LET at == {i \in 1..Len(q.skeleton) : InLaryngealSeries(q.skeleton[i])}
            features == q.ret.features
        IN  /\ features.has_laryngeal <=> at # {}
            /\ features.has_laryngeal =>
                  /\ {features.laryngeal_positions[k][1] :
                         k \in 1..Len(features.laryngeal_positions)} = at
                  /\ Len(features.laryngeal_positions) = Cardinality(at)
                  /\ \A k \in 1..(Len(features.laryngeal_positions) - 1) :
                        features.laryngeal_positions[k][1]
                            < features.laryngeal_positions[k + 1][1]


---------------------------------------------------------------------------
(* Claims about generate_word (under Spec) *)

Generated == q.op = "generate_word" /\ q.done

\* The verb type generate_word resolves: explicit, else lexicon, else the
\* detected verb home (300-301).
ResolvedType ==
    IF q.verb_type # "" THEN q.verb_type
    ELSE IF q.root \in lexicon_roots THEN LexiconType(q.root)
    ELSE detect_verb_home(get_consonant_skeleton(q.root), q.root).type

\* The radicals of the root, each at the order the vowel map prescribes.
RECURSIVE RadicalsAtOrders(_, _, _)
RadicalsAtOrders(radicals, vowel_map, i) ==
    IF i > Len(radicals) THEN << >>
    ELSE change_order(radicals[i], VowelOrder(vowel_map, i))
            \o RadicalsAtOrders(radicals, vowel_map, i + 1)

\* C17: for every strong 3-radical root given without a derivational prefix
\* and resolved to Type A, generate_word(root, "perfective", "3sm") returns a
\* word, not an error, equal to the three radicals at the orders of the
\* template, with empty prefix and empty suffix, whatever the first radical
\* of the root is (አ, ተ and ነ included).
C17_TypeAPerfective ==
    (/\ Generated /\ q.tense = "perfective" /\ q.subject_key = "3sm"
     /\ Len(q.root) = 3
     /\ detect_weak_root(get_consonant_skeleton(q.root)) = "none"
     /\ ResolvedType = "type_a" /\ "type_a" \in DOMAIN templates.types)
        => /\ ~q.result.error
           /\ q.result.word =
                 RadicalsAtOrders(get_consonant_skeleton(q.root),
                     templates.types.type_a.perfective.subjects["3sm"].vowel_map, 1)
           /\ q.result.derivation.prefix = << >>
           /\ q.result.derivation.suffix = << >>


RECURSIVE RenderedRadicals(_, _)
RenderedRadicals(vowel_shifts, i) ==
    IF i > Len(vowel_shifts) THEN << >>
    ELSE vowel_shifts[i].result \o RenderedRadicals(vowel_shifts, i + 1)

\* C18: suffix fusion: when the last radical's resolved order is 6 and the
\* subject suffix is one of ኡ, ኢ, ኣ, the last radical is rendered at order 2,
\* 3 or 4 respectively, the fusion metadata reports the fusion and the
\* suffix is absent from the word; in every other case the last radical is
\* rendered at its resolved order and the suffix is appended unmodified.
C18_SuffixFusion ==
    (Generated /\ ~q.result.error) =>
        LET d == q.result.derivation
            final == d.vowel_shifts[Len(d.vowel_shifts)]
            rendered == RenderedRadicals(d.vowel_shifts, 1)
            marker_order == IF d.suffix = <<4769>> THEN 2
                            ELSE IF d.suffix = <<4770>> THEN 3 ELSE 4
        IN  IF final.order = 6 /\ d.suffix \in {<<4769>>, <<4770>>, <<4771>>}
            THEN /\ final.result = <<get_char_by_order(devowelize(final.base), marker_order)>>
                 /\ d.fusion.fused
                 /\ q.result.word = d.prefix \o rendered
            ELSE /\ final.result = change_order(final.base, final.order)
                 /\ ~d.fusion.fused
                 /\ q.result.word = d.prefix \o rendered \o d.suffix

\* ቀተለ, imperfective, 2sf: ት + ቀ ት ል + ኢ has been rendered ትቀትሊ.
C18_Witness ==
    /\ Generated /\ q.root = <<4672, 4720, 4616>> /\ q.tense = "imperfective"
    /\ q.subject_key = "2sf" /\ ~q.result.error
    /\ q.result.derivation.fusion.fused
    /\ q.result.word = <<4725, 4672, 4725, 4618>>

\* C19: generate_word never raises and returns exactly one of two shapes, an
\* error result (an error and no word) or a success result (a word and no
\* error); a root shorter than 3 radicals, an unknown verb type, an unknown
\* tense for the type and an unknown subject for the tense always give the
\* error shape.
\* A call that has not returned has a result to return, and a call that
\* has returned holds a result of one of the two shapes.
C19_ErrorShape ==
    /\ (q.op = "generate_word" /\ ~q.done) =>
          generate_word(q.root, q.tense, q.subject_key, q.verb_type).error \in BOOLEAN
    /\ Generated =>
          /\ q.result.error <=> "word" \notin DOMAIN q.result
          /\ Len(get_consonant_skeleton(q.root)) < 3 => q.result.error
          /\ ResolvedType \notin DOMAIN templates.types => q.result.error
          /\ (/\ ResolvedType \in DOMAIN templates.types
              /\ q.tense \notin DOMAIN templates.types[ResolvedType]) => q.result.error
          /\ (/\ ResolvedType \in DOMAIN templates.types
              /\ q.tense \in DOMAIN templates.types[ResolvedType]
              /\ q.subject_key
                    \notin DOMAIN Subjects(templates.types[ResolvedType][q.tense]))
                => q.result.error

\* ቀተለ with the unknown verb type type_x has given an error and no word.
C19_Witness ==
    /\ Generated /\ q.root = <<4672, 4720, 4616>> /\ q.verb_type = "type_x"
    /\ lexicon = ModelLexicon /\ q.tense = "perfective" /\ q.subject_key = "3sm"
    /\ q.result.error /\ "word" \notin DOMAIN q.result


---------------------------------------------------------------------------
(* Claims about expand_root (under SpecExpand) *)

Expanded == q.op = "expand_root" /\ q.done

\* C20: expand_root(root, verb_type) with a verb_type that is not a key of
\* the templates returns a top-level error object that holds no tense key
\* (perfective, imperfective, jussive, imperative) and no derived key, for
\* every root of at least 3 radicals, the roots that carry a derivational
\* prefix (ተ, አ, አስተ) included.
C20_UnknownTypeError ==
    (/\ Expanded /\ q.verb_type # "" /\ q.verb_type \notin DOMAIN templates.types
     /\ Len(q.root) >= 3)
        => /\ "error" \in DOMAIN q.result
           /\ DOMAIN q.result \cap (ExpandTenses \cup {"derived"}) = {}


StemsExpanded == q.op = "expand_stems" /\ q.done

\* The entry is a successful generation: it carries a word and no error.
Successful(entry) == "word" \in DOMAIN entry /\ ~entry.error

\* C21: expand_root and expand_stems swallow per-entry errors: every entry of
\* the aggregate they return (each tense's conjugations, the derived forms,
\* each stem) is a successful generation carrying a word, an entry whose
\* generation errs is omitted, and the other entries stay.
C21_EntriesSuccessful ==
    /\ (Expanded /\ "error" \notin DOMAIN q.result) =>
          \E meta \in {q.result["_meta"]} :
          \E gen_root \in {IF identify_stem(meta.stem.prefix, q.root).template_suffix # ""
                           THEN meta.base_root ELSE q.root} :
             /\ \A tense \in DOMAIN q.result \cap ExpandTenses :
                   /\ \A k \in DOMAIN q.result[tense].conjugations :
                         Successful(q.result[tense].conjugations[k])
                   /\ \A k \in DOMAIN Subjects(templates.types[meta.verb_type][tense]) :
                         \/ k \in DOMAIN q.result[tense].conjugations
                         \/ generate_word_home(gen_root, tense, k, meta.verb_type,
                                               meta.verb_home).error
             /\ \A k \in DOMAIN q.result.derived : Successful(q.result.derived[k])
             /\ \A k \in derived_keys :
                   \/ k \in DOMAIN q.result.derived
                   \/ generate_derived(q.root, k, meta.verb_type).error
    /\ (StemsExpanded /\ "raised" \notin DOMAIN q.result) =>
          \A code \in DOMAIN q.result : Successful(q.result[code])

---------------------------------------------------------------------------
(* Claims about several calls (under SpecSession) *)

\* The latest generator call repeats the first one, with other calls between.
RepeatedCall ==
    /\ q.calls >= 2
    /\ q.last.name = q.first.name
    /\ q.last.args = q.first.args

\* extract_root has returned for the word the stemmer's first call was given.
RepeatedExtract ==
    /\ Returned
    /\ q.xfirst.name = "extract_root"
    /\ q.xfirst.args = st.word

---------------------------------------------------------------------------
(* Claims about the affix lists (under Spec) *)

\* No listed prefix is preceded by a shorter listed prefix it starts with, and
\* no listed suffix by a shorter listed suffix it ends with.
LongestListedFirst ==
    /\ \A i, j \in 1..Len(prefixes) :
          (i < j /\ Len(prefixes[i]) < Len(prefixes[j]))
             => ~StartsWith(prefixes[j], prefixes[i])
    /\ \A i, j \in 1..Len(suffixes) :
          (i < j /\ Len(suffixes[i]) < Len(suffixes[j]))
             => ~EndsWith(suffixes[j], suffixes[i])

\* In a pass of strip_affixes the affix stripped is the longest of the listed
\* affixes that match and pass the length rule.
LongestStripped ==
    Stripping =>
        LET P == StrippablePrefixes(st.current_word)
            S == StrippableSuffixes(st.current_word)
        IN  /\ P # {} => \A n \in P : Len(prefixes[n]) <= Len(prefixes[First(P)])
            /\ (P = {} /\ S # {}) =>
                  \A n \in S : Len(suffixes[n]) <= Len(suffixes[First(S)])

\* Each listed affix is the one a pass strips from some word.
EveryAffixStripped ==
    /\ \A n \in 1..Len(prefixes) :
          \E word \in Words :
             \E P \in {StrippablePrefixes(normalize_geez(word))} :
                P # {} /\ First(P) = n
    /\ \A n \in 1..Len(suffixes) :
          \E word \in Words :
             \E S \in {StrippableSuffixes(normalize_geez(word))} :
                S # {} /\ First(S) = n

\* C23: both affix lists are ordered longest first: no listed affix comes
\* after a shorter listed affix that matches wherever it matches, so the
\* longer of two affixes that match and pass the length rule is the one
\* stripped, and every listed affix is stripped from at least one word.
C23_LongestAffixFirst ==
    /\ LongestListedFirst
    /\ LongestStripped
    /\ EveryAffixStripped

---------------------------------------------------------------------------
(* Claims about identify_verb_pattern (under Spec) *)

\* extract_root has returned through strip_affixes and _build_result.
Derived == Returned /\ st.result.analysis.method = "derived"

\* 80: ይት ትት እት ንት, the passive fused prefixes of self.prefixes
Stem2Prefixes == {<<4845, 4725>>, <<4725, 4725>>, <<4773, 4725>>, <<4757, 4725>>}

\* 328-330, 360-361, 381, 390: the prefixes of Stems IV and III
Stem34Prefixes ==
    {<<4843, 4661, 4720>>, <<4723, 4661, 4720>>, <<4755, 4661, 4720>>,
     <<4619, 4661, 4720>>, <<4768, 4661, 4720>>, <<4632, 4661, 4720>>,
     <<4843>>, <<4723>>, <<4755>>, <<4843, 4661>>, <<4723, 4661>>, <<4755, 4661>>,
     <<4619, 4661>>, <<4768>>, <<4768, 4661>>}

\* C24: whenever the prefixes strip_affixes found include one of ይት, ትት, እት,
\* ንት and no prefix of Stem III or IV, the pattern extract_root reports is
\* passive_imperfective with stem_number 2.
C24_Stem2Detection ==
    (/\ Derived
     /\ AnyIn(st.result.analysis.prefixes, Stem2Prefixes)
     /\ ~AnyIn(st.result.analysis.prefixes, Stem34Prefixes))
        => st.result.analysis.pattern = Pattern("passive_imperfective", 2)

---------------------------------------------------------------------------
(* Claims about _reconstruct_laryngeal_middle (under SpecLaryngeal) *)

LaryngealReturned == q.op = "reconstruct_laryngeal_middle" /\ q.done

\* A laryngeal between the two radicals gives a root of the known-roots table
\* or a laryngeal-middle root of the lexicon.
LaryngealCandidate(skeleton) ==
    \E n \in 1..Len(laryngeal_bases) :
       \E candidate \in {<<devowelize(skeleton[1]), laryngeal_bases[n],
                           devowelize(skeleton[2])>>} :
          \/ candidate \in laryngeal_middle_roots
          \/ /\ candidate \in lexicon_roots
             /\ LexiconType(candidate) \in {"laryngeal_middle", "laryngeal"}

\* C25: for a 2-radical skeleton of a character of the በ series and one of the
\* ለ series (ብለ) with no laryngeal candidate in the known-roots table or the
\* lexicon, _reconstruct_laryngeal_middle returns ብህለ with laryngeal ህ; and
\* every entry of the known-roots table is returned for the skeleton of its
\* first and third radicals.
C25_LaryngealLastResort ==
    LaryngealReturned =>
        /\ (/\ Len(q.skeleton) = 2
            /\ devowelize(q.skeleton[1]) = 4704
            /\ devowelize(q.skeleton[2]) = 4616
            /\ ~LaryngealCandidate(q.skeleton))
              => q.result = [found |-> TRUE, root |-> <<4709, 4613, 4616>>,
                             laryngeal |-> 4613]
        /\ \A entry \in laryngeal_middle_roots :
              q.skeleton = <<entry[1], entry[3]>>
                 => (q.result.found /\ q.result.root = entry)

---------------------------------------------------------------------------
(* Claims about the rendered prefix (under SpecPrefix) *)

PrefixRendered == q.op = "final_prefix" /\ q.done

\* ይ -> ያ, ት -> ታ, እ -> አ, ን -> ና: the subject prefix with the vowel of አ.
FusedSubject(subject_prefix) ==
    IF subject_prefix = <<4845>> THEN 4843
    ELSE IF subject_prefix = <<4725>> THEN 4723
    ELSE IF subject_prefix = <<4773>> THEN 4768
    ELSE 4755

\* C26: outside the perfective a derivational prefix አ, አን or አስተ joined to
\* the subject prefix ይ, ት, እ or ን gives the fused form (ያ ታ አ ና, ያን ታን አን
\* ናን, ያስተ ታስተ አስተ ናስተ); in the perfective the prefix written is the bare
\* derivational prefix whatever the template's subject prefix, for each of
\* the prefixes the generator takes off the root (አስተ, አን, ተ, አ, ነ).
C26_PrefixRendering ==
    PrefixRendered =>
        /\ (/\ q.tense # "perfective"
            /\ q.prefix_adjustment \in {<<4768>>, <<4768, 4757>>, <<4768, 4661, 4720>>}
            /\ q.subject_prefix \in {<<4845>>, <<4725>>, <<4773>>, <<4757>>})
              => q.result = <<FusedSubject(q.subject_prefix)>>
                               \o DropFirst(q.prefix_adjustment, 1)
        /\ (q.tense = "perfective" /\ q.prefix_adjustment # << >>)
              => q.result = q.prefix_adjustment

---------------------------------------------------------------------------
(* Claims about the weak-initial drop and features_applied (under Spec) *)

\* C27: whenever the first radical of the clean root is ወ, in the jussive and
\* the imperative C1 is dropped (its vowel shift records DROP and an empty
\* result, and the word holds no character for it), and in the perfective
\* and the imperfective it is rendered at its order; for roots of 3 and of 4
\* radicals alike.
C27_WeakInitialDrop ==
    (Generated /\ ~q.result.error) =>
        LET d == q.result.derivation
            c1 == d.vowel_shifts[1]
        IN  d.root[1] = 4808 =>
               /\ c1.consonant = 1
               /\ IF q.tense \in {"jussive", "imperative"}
                  THEN /\ c1.order = DROP
                       /\ c1.result = << >>
                       /\ q.result.word =
                             d.prefix \o RenderedRadicals(d.vowel_shifts, 2)
                                \o (IF d.fusion.fused THEN << >> ELSE d.suffix)
                  ELSE /\ c1.order # DROP
                       /\ c1.result = change_order(c1.base, c1.order)

\* The vowel map of the subject the call conjugated for.
TemplateVowelMap ==
    Subjects(templates.types[q.result.derivation.verb_type][q.tense])[q.subject_key].vowel_map

\* The hollow perfective transform (393-430) ran in this call.
HollowTransformRan ==
    /\ q.result.derivation.root_type \in {"hollow_w", "hollow_y"}
    /\ q.tense = "perfective"

\* C1 was dropped by the weak-initial rule in this call.
WeakInitialDropped ==
    /\ q.result.derivation.vowel_shifts[1].consonant = 1
    /\ q.result.derivation.vowel_shifts[1].order = DROP

\* A laryngeal rule gave a radical an order other than the template's.
LaryngealShifted ==
    /\ ~HollowTransformRan
    /\ \E i \in 1..Len(q.result.derivation.vowel_shifts) :
          \E s \in {q.result.derivation.vowel_shifts[i]} :
             /\ ~(i = 1 /\ WeakInitialDropped)
             /\ s.order # VowelOrder(TemplateVowelMap, s.consonant)

\* The prefix taken off the root is the causative አ and the prefix written
\* ends in it or in its fusion with the subject prefix (ያ ታ አ ና).
CausativeRendered ==
    /\ handle_prefixes(q.root).prefix = <<4768>>
    /\ q.result.derivation.prefix # << >>
    /\ q.result.derivation.prefix[Len(q.result.derivation.prefix)]
          \in {4843, 4723, 4768, 4755}

\* C28: features_applied reports what fired in the call: weak_initial_drop
\* exactly when C1 was dropped, hollow_handling exactly when the hollow
\* perfective transform ran, laryngeal_shift exactly when a laryngeal rule
\* changed a radical's order, causative_prefix exactly when the causative
\* prefix was rendered.
C28_FeaturesApplied ==
    (Generated /\ ~q.result.error) =>
        LET applied == q.result.derivation.features_applied
        IN  /\ applied.weak_initial_drop <=> WeakInitialDropped
            /\ applied.hollow_handling <=> HollowTransformRan
            /\ applied.laryngeal_shift <=> LaryngealShifted
            /\ applied.causative_prefix <=> CausativeRendered

---------------------------------------------------------------------------
(* Claims about the decomposition strip_affixes returns (under Spec) *)

\* "".join(affixes)
RECURSIVE Joined(_, _)
Joined(affixes, i) ==
    IF i > Len(affixes) THEN << >> ELSE affixes[i] \o Joined(affixes, i + 1)

\* "".join(reversed(affixes))
RECURSIVE JoinedReversed(_, _)
JoinedReversed(affixes, i) ==
    IF i < 1 THEN << >> ELSE affixes[i] \o JoinedReversed(affixes, i - 1)

\* The prefixes in the order found, the stem, and the suffixes in the reverse
\* of the order found.
Recomposed(found_prefixes, stem, found_suffixes) ==
    Joined(found_prefixes, 1) \o stem \o JoinedReversed(found_suffixes, Len(found_suffixes))

StripSteps(derivation_path) ==
    {i \in 1..Len(derivation_path) :
        derivation_path[i].action \in {"strip_prefix", "strip_suffix"}}

\* C29: the affix decomposition is lossless.  At every pass of strip_affixes,
\* when it returns and in the result of extract_root, the stripped prefixes in
\* order, the stem and the stripped suffixes in reverse order make up the
\* word strip_affixes was given, and there are as many strip steps as
\* prefixes and suffixes found.
C29_LosslessDecomposition ==
    /\ (st.op = "extract_root" /\ st.pc \in {"strip", "derive"}) =>
          /\ Recomposed(st.found_prefixes, st.current_word, st.found_suffixes)
                = st.normalized
          /\ Len(st.affix_steps) = Len(st.found_prefixes) + Len(st.found_suffixes)
    /\ Derived =>
          /\ Recomposed(st.result.analysis.prefixes, st.result.analysis.stem,
                        st.result.analysis.suffixes) = st.normalized
          /\ Cardinality(StripSteps(st.result.derivation_path))
                = Len(st.result.analysis.prefixes) + Len(st.result.analysis.suffixes)

\* ይቀተልከኒ has been taken apart into ይ, ቀተል and the suffixes ኒ, ከ.
C29_Witness ==
    /\ Derived
    /\ st.normalized = <<4845, 4672, 4720, 4621, 4776, 4754>>
    /\ st.result.analysis.prefixes = << <<4845>> >>
    /\ st.result.analysis.stem = <<4672, 4720, 4621>>
    /\ st.result.analysis.suffixes = << <<4754>>, <<4776>> >>

---------------------------------------------------------------------------
(* Claims relating the pattern and the causative flag (under Spec) *)

\* extract_root has returned through _build_result.
Built == Returned /\ "is_causative" \in DOMAIN st.result.analysis

\* The stripped prefixes that belong to self.causative_prefixes.
CausativeFound ==
    {i \in 1..Len(st.result.analysis.prefixes) :
        st.result.analysis.prefixes[i] \in causative_prefixes}

\* C30: whenever identify_verb_pattern reports stem_number 3 or 4,
\* analysis.is_causative is true and verb_home.features carries is_causative
\* with causative_prefix the first stripped prefix of the causative set; and
\* is_causative is true only if some stripped prefix is in the causative set.
C30_CausativeAgreesWithPattern ==
    Built =>
        /\ st.result.analysis.pattern.stem_number \in {3, 4} =>
              /\ st.result.analysis.is_causative
              /\ "is_causative" \in DOMAIN st.result.verb_home.features
              /\ st.result.verb_home.features.is_causative
              /\ CausativeFound # {}
              /\ st.result.verb_home.features.causative_prefix
                    = st.result.analysis.prefixes[First(CausativeFound)]
        /\ st.result.analysis.is_causative => CausativeFound # {}

====
